---------------------------- MODULE Spec2Model ----------------------------
(***************************************************************************)
(* Model of the travel service of space-drivers:                           *)
(*   internal/travel/travel.go      TravelStorage.Get / Save / Update and  *)
(*                                  validateTravelUpdate                    *)
(*   internal/travel/repository.go  SqlRepository (table `travels`) and    *)
(*                                  Point.String / Point.FromString         *)
(*   internal/user/user.go          UserStorage.Get / Save / Login /       *)
(*                                  Search and the table `users`            *)
(*   cmd/api/handlers, cmd/api      the handlers, AuthenticateRequest,      *)
(*                                  AuthorizeRequest and the routes         *)
(* One service call is one action.  A call is in flight from the action    *)
(* that runs it until Respond hands its result to the caller.  SpecRace    *)
(* runs two Update calls in two steps each, the read and the write.        *)
(* SpecHandlers runs the handlers of the travels and of the users on a     *)
(* request that passed the middleware, SpecApi runs a request through the  *)
(* chain of its route, SpecUsers runs the calls of the user service.       *)
(* SpecPoint converts a Point to its text and back.                        *)
(***************************************************************************)
EXTENDS Integers, Sequences, FiniteSets, TLC

VARIABLES travels, nextID, last, calls, users, http, point

vars == <<travels, nextID, last, calls, users, http, point>>

----------------------------------------------------------------------------
(* Bounds of the model                                                      *)

\* number of rows the auto-increment column of `travels` hands out
MaxTravels == 1
\* the coordinates converted run over the tenths of -MaxTenths..MaxTenths
MaxTenths == 12
\* user ids run over 1..MaxUser (0 is "no user")
MaxUser == 2
\* the width in bits of the signed integers of a search (int64 in the
\* program), wide enough for the default limit
IntBits == 6

----------------------------------------------------------------------------
(* travel.go 14-20: statuses and the travel flow                            *)

StatusPending == "pending"
StatusInProcess == "in_process"
StatusReady == "ready"

travelFlow == <<StatusPending, StatusInProcess, StatusReady>>

\* user.RoleAdmin / user.RoleDriver
RoleAdmin == "admin"
RoleDriver == "driver"

(* travel.go 22-32: the errors of the service; nil is the empty error      *)
Nil == [Code |-> "", Detail |-> ""]
ErrStorageSave == [Code |-> "storage_failure", Detail |-> "save travel"]
ErrStorageUpdate == [Code |-> "storage_failure", Detail |-> "update travel"]
ErrStorageGet == [Code |-> "storage_failure", Detail |-> "get travel"]
ErrNotFoundTravel == [Code |-> "not_found_travel", Detail |-> "not founded the travel to get"]
ErrInvalidStatusToEditLocation ==
    [Code |-> "invalid_location_edit_status", Detail |-> "travel status does not allow location change"]
ErrInvalidStatusToEdit == [Code |-> "invalid_status", Detail |-> "invalid received status"]
ErrInvalidUser == [Code |-> "invalid_user", Detail |-> "invalid user while performing update"]
ErrInvalidUserClaims == [Code |-> "invalid_user_access", Detail |-> "cannot identify user logged in"]
ErrInvalidUserAccess == [Code |-> "invalid_user_access", Detail |-> "not the owner of the travel or not an admin"]

(* repository.go 23-28: the errors of the repository                       *)
ErrTravelNotFound == [Code |-> "repository", Detail |-> "not founded travel"]
ErrTravelNotFoundOnUpdate == [Code |-> "repository", Detail |-> "not founded travel on update"]
ErrInvalidFromLocation == [Code |-> "repository", Detail |-> "invalid 'from' location"]
ErrInvalidToLocation == [Code |-> "repository", Detail |-> "invalid 'to' location"]
\* any error of database/sql (connection lost, prepare or exec failed)
ErrSql == [Code |-> "sql", Detail |-> "driver error"]
\* a run-time panic unwinding the call (it is not a returned error)
Panic == [Code |-> "panic", Detail |-> "index out of range"]

----------------------------------------------------------------------------
(* Values.  A coordinate is a float64 holding a whole number of tenths of a *)
(* degree; it is represented by that number (15 is 1.5, -20 is -2).        *)

\* Point{} and Travel{}, the zero values Go returns next to an error
ZeroPoint == [Lat |-> 0, Lng |-> 0]
ZeroTravel == [ID |-> 0, Status |-> "", From |-> ZeroPoint, To |-> ZeroPoint, UserID |-> 0]

\* jwt.Claims{} (Iat and Expiration are never read by the travel service)
ZeroClaims == [UserID |-> 0, Role |-> ""]

\* sql.NullInt64
NullInt64 == [Valid |-> FALSE, Int64 |-> 0]
ValidInt64(n) == [Valid |-> TRUE, Int64 |-> n]


----------------------------------------------------------------------------
(* repository.go 178-204: the text form of a Point.  A text is a sequence   *)
(* of one-character strings.                                                *)

DigitChars == <<"0", "1", "2", "3", "4", "5", "6", "7", "8", "9">>

IsDigit(c) == \E d \in 1..Len(DigitChars) : DigitChars[d] = c

DigitVal(c) == (CHOOSE d \in 1..Len(DigitChars) : DigitChars[d] = c) - 1

RECURSIVE FormatNat(_)
\* the decimal digits of a natural number
FormatNat(n) ==
    IF n < Len(DigitChars) THEN <<DigitChars[n + 1]>>
    ELSE FormatNat(n \div Len(DigitChars)) \o <<DigitChars[(n % Len(DigitChars)) + 1]>>

RECURSIVE ParseNat(_)
\* the value of a non-empty sequence of decimal digits
ParseNat(s) ==
    IF Len(s) = 1 THEN DigitVal(s[1])
    ELSE ParseNat(SubSeq(s, 1, Len(s) - 1)) * Len(DigitChars) + DigitVal(s[Len(s)])

\* faulty variant: the sign of the number is not written
FormatFloat_Unsigned(x) ==
    LET a == IF x < 0 THEN -x ELSE x
        ip == a \div Len(DigitChars)
        fp == a % Len(DigitChars)
    IN  FormatNat(ip) \o (IF fp = 0 THEN <<>> ELSE <<".", DigitChars[fp + 1]>>)

\* strconv.FormatFloat(x, 'g', -1, 64): the shortest decimal text that parses
\* back to x; for a number of tenths that is the integer part and, when the
\* tenths digit is not 0, a point and that digit
FormatFloat(x) ==
    LET a == IF x < 0 THEN -x ELSE x
        ip == a \div Len(DigitChars)
        fp == a % Len(DigitChars)
    IN  (IF x < 0 THEN <<"-">> ELSE <<>>)
        \o FormatNat(ip)
        \o (IF fp = 0 THEN <<>> ELSE <<".", DigitChars[fp + 1]>>)

\* strconv.ParseFloat(s, 64) on the texts of numbers of tenths: an optional
\* sign, digits, and optionally a point and one digit; anything else is a
\* syntax error
ParseFloat(s) ==
    LET neg == Len(s) > 0 /\ s[1] = "-"
        body == IF neg THEN Tail(s) ELSE s
        dots == {i \in 1..Len(body) : body[i] = "."}
        ipart == IF dots = {} THEN body
                 ELSE SubSeq(body, 1, (CHOOSE i \in dots : \A j \in dots : i <= j) - 1)
        fpart == IF dots = {} THEN <<>>
                 ELSE SubSeq(body, (CHOOSE i \in dots : \A j \in dots : i <= j) + 1, Len(body))
        wellFormed == /\ Len(ipart) > 0
                      /\ \A i \in 1..Len(ipart) : IsDigit(ipart[i])
                      /\ IF dots = {} THEN TRUE
                         ELSE Len(fpart) = 1 /\ IsDigit(fpart[1])
        mag == ParseNat(ipart) * Len(DigitChars)
               + (IF dots = {} THEN 0 ELSE DigitVal(fpart[1]))
    IN  IF wellFormed
        THEN [val |-> IF neg THEN -mag ELSE mag, err |-> FALSE]
        ELSE [val |-> 0, err |-> TRUE]

\* Point.String (repository.go 183-188): "<lat>, <lng>"
PointString(p) == FormatFloat(p.Lat) \o <<",", " ">> \o FormatFloat(p.Lng)

\* strings.Split(value, ", ") (repository.go 191)
RECURSIVE Split(_)
Split(value) ==
    LET seps == {i \in 1..(Len(value) - 1) : value[i] = "," /\ value[i + 1] = " "}
    IN  IF seps = {} THEN <<value>>
        ELSE LET i == CHOOSE k \in seps : \A j \in seps : k <= j
             IN  <<SubSeq(value, 1, i - 1)>> \o Split(SubSeq(value, i + 2, Len(value)))

\* Point.FromString (repository.go 190-204).  panic: split[1] is read without
\* a length check, so a text without ", " is an index-out-of-range panic.
PointFromString(value) ==
    LET split == Split(value)
        lat == ParseFloat(split[1])
    IN  IF lat.err THEN [p |-> [Lat |-> 0, Lng |-> 0], err |-> TRUE, panic |-> FALSE]
        ELSE IF Len(split) < 2 THEN [p |-> [Lat |-> lat.val, Lng |-> 0], err |-> FALSE, panic |-> TRUE]
        ELSE LET lng == ParseFloat(split[2])
             IN  IF lng.err
                 THEN [p |-> [Lat |-> lat.val, Lng |-> 0], err |-> TRUE, panic |-> FALSE]
                 ELSE [p |-> [Lat |-> lat.val, Lng |-> lng.val], err |-> FALSE, panic |-> FALSE]

\* The coordinates and points of the model's routes, and Point.String and
\* Point.FromString tabulated over them (the tables are computed once).
Coordinates == {10, 15, 20, 25, -10, -15, -20, -25}

Points == [Lat : Coordinates, Lng : Coordinates]

StringOf == [p \in Points |-> PointString(p)]

FromStringOf == [t \in {PointString(p) : p \in Points} |-> PointFromString(t)]

----------------------------------------------------------------------------
(* repository.go 62-157: SqlRepository over the table `travels`.  db is the *)
(* table: a function from the ids of its rows to                            *)
(* [status, from, to, user_id], from and to being text and user_id a        *)
(* nullable int.  sqlErr says whether database/sql fails the statement.     *)

\* the row EditTravel's UPDATE writes (repository.go 91, 97): user_id is
\* bound to travel.UserID itself, so 0 is stored as 0 and not as NULL
\* faulty variant: the UPDATE binds the two locations in the wrong order
EditRow_SwapsRoute(travel) ==
    [status |-> travel.Status, from |-> StringOf[travel.To],
     to |-> StringOf[travel.From], user_id |-> ValidInt64(travel.UserID)]

EditRow(travel) ==
    [status |-> travel.Status, from |-> StringOf[travel.From],
     to |-> StringOf[travel.To], user_id |-> ValidInt64(travel.UserID)]

\* the row SaveTravel's INSERT writes (repository.go 64-75): a nil userID,
\* that is NULL, when travel.UserID is 0
SaveRow(travel) ==
    [status |-> travel.Status, from |-> StringOf[travel.From],
     to |-> StringOf[travel.To],
     user_id |-> IF travel.UserID # 0 THEN ValidInt64(travel.UserID) ELSE NullInt64]

\* result.RowsAffected() of the UPDATE (repository.go 103).  The connection is
\* opened without clientFoundRows (repository.go 52), so MySQL counts the rows
\* the statement changed, not the rows its WHERE clause matched.
RowsAffected(db, id, row) ==
    IF id \in DOMAIN db /\ db[id] # row THEN 1 ELSE 0

\* SqlRepository.SaveTravel (repository.go 63-87); id is the auto-increment
\* value the INSERT is given (result.LastInsertId)
SaveTravel(db, id, travel, sqlErr) ==
    IF sqlErr THEN [travel |-> ZeroTravel, err |-> ErrSql, db |-> db]
    ELSE [travel |-> [travel EXCEPT !.ID = id], err |-> Nil,
          db |-> [i \in DOMAIN db \cup {id} |-> IF i = id THEN SaveRow(travel) ELSE db[i]]]

\* faulty variant: the UPDATE has no WHERE clause and writes every row
EditTravel_NoWhere(db, travel, sqlErr) ==
    IF sqlErr THEN [err |-> ErrSql, db |-> db]
    ELSE IF RowsAffected(db, travel.ID, EditRow(travel)) # 1
         THEN [err |-> ErrTravelNotFoundOnUpdate, db |-> db]
         ELSE [err |-> Nil, db |-> [i \in DOMAIN db |-> EditRow(travel)]]

\* SqlRepository.EditTravel (repository.go 90-113)
EditTravel(db, travel, sqlErr) ==
    IF sqlErr THEN [err |-> ErrSql, db |-> db]
    ELSE IF RowsAffected(db, travel.ID, EditRow(travel)) # 1
         THEN [err |-> ErrTravelNotFoundOnUpdate, db |-> db]
         ELSE [err |-> Nil, db |-> [db EXCEPT ![travel.ID] = EditRow(travel)]]

\* SqlRepository.GetTravel (repository.go 116-157)
GetTravel(db, id, sqlErr) ==
    IF sqlErr THEN [travel |-> ZeroTravel, err |-> ErrSql]
    ELSE IF id \notin DOMAIN db THEN [travel |-> ZeroTravel, err |-> ErrTravelNotFound]
    ELSE LET row == db[id]
             from == FromStringOf[row.from]
             to == FromStringOf[row.to]
         IN  IF from.panic THEN [travel |-> ZeroTravel, err |-> Panic]
             ELSE IF from.err THEN [travel |-> ZeroTravel, err |-> ErrInvalidFromLocation]
             ELSE IF to.panic THEN [travel |-> ZeroTravel, err |-> Panic]
             ELSE IF to.err THEN [travel |-> ZeroTravel, err |-> ErrInvalidToLocation]
             ELSE [travel |-> [ID |-> id, Status |-> row.status, From |-> from.p, To |-> to.p,
                               UserID |-> IF row.user_id.Valid THEN row.user_id.Int64 ELSE 0],
                   err |-> Nil]

----------------------------------------------------------------------------
(* travel.go 117-216: the validation of an update                           *)

\* faulty variant: a status that is not in the flow gets the first index
findStatusInFlow_FirstWhenMissing(e) ==
    IF \E i \in 1..Len(travelFlow) : travelFlow[i] = e
    THEN (CHOOSE i \in 1..Len(travelFlow) : travelFlow[i] = e) - 1
    ELSE 0

\* findStatusInFlow (travel.go 117-124)
findStatusInFlow(e) ==
    IF \E i \in 1..Len(travelFlow) : travelFlow[i] = e
    THEN (CHOOSE i \in 1..Len(travelFlow) : travelFlow[i] = e) - 1
    ELSE -1

\* the locals of validateTravelUpdate (travel.go 128-139)
isPending(travel) == travel.Status = StatusPending

isChangeToPending(changes) == changes.Status = StatusPending

\* faulty variant: the comparison forgets the destination
changedLocation_FromOnly(travel, changes) ==
    \/ travel.From.Lat # changes.From.Lat
    \/ travel.From.Lng # changes.From.Lng

changedLocation(travel, changes) ==
    \/ travel.From.Lat # changes.From.Lat
    \/ travel.From.Lng # changes.From.Lng
    \/ travel.To.Lat # changes.To.Lat
    \/ travel.To.Lng # changes.To.Lng

changedUserID(travel, changes) == changes.UserID # travel.UserID

changedStatus(travel, changes) ==
    findStatusInFlow(changes.Status) # findStatusInFlow(travel.Status)

\* the conditions of the eight checks, in the order of the code

\* faulty variant: an unassigned travel is open to every driver
notOwnerNorAdmin_UnassignedOpen(travel, changes, userLogged) ==
    /\ travel.UserID # userLogged.UserID
    /\ travel.UserID # 0
    /\ userLogged.Role # RoleAdmin

\* travel.go 142
notOwnerNorAdmin(travel, changes, userLogged) ==
    travel.UserID # userLogged.UserID /\ userLogged.Role # RoleAdmin

\* faulty variant: a driver may change the user as long as the change is to pending
driverChangesUser_UnlessPending(travel, changes, userLogged) ==
    /\ changedUserID(travel, changes)
    /\ travel.UserID # 0
    /\ userLogged.Role # RoleAdmin
    /\ ~isChangeToPending(changes)

\* travel.go 153
driverChangesUser(travel, changes, userLogged) ==
    changedUserID(travel, changes) /\ travel.UserID # 0 /\ userLogged.Role # RoleAdmin

\* faulty variant: a change of location is refused in every status
locationEditNotPending_Always(travel, changes, userLogged) ==
    changedLocation(travel, changes)

\* faulty variant: only a ready travel has its locations frozen
locationEditNotPending_ReadyOnly(travel, changes, userLogged) ==
    changedLocation(travel, changes) /\ travel.Status = StatusReady

\* travel.go 164
locationEditNotPending(travel, changes, userLogged) ==
    changedLocation(travel, changes) /\ ~isPending(travel)

\* faulty variant: a request without status is let through
invalidNewStatus_EmptyAllowed(travel, changes, userLogged) ==
    findStatusInFlow(changes.Status) = -1 /\ changes.Status # ""

\* travel.go 172
invalidNewStatus(travel, changes, userLogged) ==
    findStatusInFlow(changes.Status) = -1

\* faulty variant: the check looks at the stored user instead of the received one
noUserOnNotPending_StoredUser(travel, changes, userLogged) ==
    ~isPending(travel) /\ travel.UserID = 0

\* travel.go 180
noUserOnNotPending(travel, changes, userLogged) ==
    ~isPending(travel) /\ changes.UserID = 0

\* faulty variant: the check repeats the condition of the one before it
noUserOnChangeNotPending_Repeated(travel, changes, userLogged) ==
    ~isChangeToPending(changes) /\ ~isPending(travel) /\ changes.UserID = 0

\* travel.go 188
noUserOnChangeNotPending(travel, changes, userLogged) ==
    ~isChangeToPending(changes) /\ changes.UserID = 0

\* faulty variant: the check looks at the stored status instead of the received one
changeUserNotToPending_StoredStatus(travel, changes, userLogged) ==
    changedUserID(travel, changes) /\ travel.UserID # 0 /\ ~isPending(travel)

\* travel.go 197
changeUserNotToPending(travel, changes, userLogged) ==
    changedUserID(travel, changes) /\ travel.UserID # 0 /\ ~isChangeToPending(changes)

\* faulty variant: only a move past the next status is refused
invalidStatusMove_BackwardAllowed(travel, changes, userLogged) ==
    /\ changedStatus(travel, changes)
    /\ findStatusInFlow(travel.Status) + 1 < findStatusInFlow(changes.Status)

\* faulty variant: only a move to an earlier status is refused
invalidStatusMove_SkipAllowed(travel, changes, userLogged) ==
    /\ changedStatus(travel, changes)
    /\ findStatusInFlow(changes.Status) < findStatusInFlow(travel.Status)

\* travel.go 207
invalidStatusMove(travel, changes, userLogged) ==
    /\ changedStatus(travel, changes)
    /\ findStatusInFlow(travel.Status) + 1 # findStatusInFlow(changes.Status)

\* faulty variant: the received status is checked before everything else
validateTravelUpdate_StatusFirst(travel, changes, userLogged) ==
    IF invalidNewStatus(travel, changes, userLogged) THEN ErrInvalidStatusToEdit
    ELSE IF notOwnerNorAdmin(travel, changes, userLogged) THEN ErrInvalidUserAccess
    ELSE IF driverChangesUser(travel, changes, userLogged) THEN ErrInvalidUserAccess
    ELSE IF locationEditNotPending(travel, changes, userLogged) THEN ErrInvalidStatusToEditLocation
    ELSE IF noUserOnNotPending(travel, changes, userLogged) THEN ErrInvalidUser
    ELSE IF noUserOnChangeNotPending(travel, changes, userLogged) THEN ErrInvalidUser
    ELSE IF changeUserNotToPending(travel, changes, userLogged) THEN ErrInvalidUser
    ELSE IF invalidStatusMove(travel, changes, userLogged) THEN ErrInvalidStatusToEdit
    ELSE Nil

\* validateTravelUpdate (travel.go 127-216): the error of the first check that
\* fails, nil when none does
validateTravelUpdate(travel, changes, userLogged) ==
    IF notOwnerNorAdmin(travel, changes, userLogged) THEN ErrInvalidUserAccess
    ELSE IF driverChangesUser(travel, changes, userLogged) THEN ErrInvalidUserAccess
    ELSE IF locationEditNotPending(travel, changes, userLogged) THEN ErrInvalidStatusToEditLocation
    ELSE IF invalidNewStatus(travel, changes, userLogged) THEN ErrInvalidStatusToEdit
    ELSE IF noUserOnNotPending(travel, changes, userLogged) THEN ErrInvalidUser
    ELSE IF noUserOnChangeNotPending(travel, changes, userLogged) THEN ErrInvalidUser
    ELSE IF changeUserNotToPending(travel, changes, userLogged) THEN ErrInvalidUser
    ELSE IF invalidStatusMove(travel, changes, userLogged) THEN ErrInvalidStatusToEdit
    ELSE Nil

----------------------------------------------------------------------------
(* travel.go 55-115: TravelStorage.  Each operator gives the values the     *)
(* method returns and the table it leaves.  ctx is the request context:     *)
(* ok says whether it carries the caller's jwt.Claims under "user_on_call", *)
(* claims is that value.  fault names the repository call database/sql      *)
(* fails, if any.                                                           *)

FaultNone == "none"
FaultGet == "get"
FaultSave == "save"
FaultEdit == "edit"

\* faulty variant: an absent travel is reported as a storage failure
Get_AllStorage(db, id, fault) ==
    LET got == GetTravel(db, id, fault = FaultGet)
    IN  IF got.err # Nil THEN [travel |-> ZeroTravel, err |-> ErrStorageGet]
        ELSE [travel |-> got.travel, err |-> Nil]

\* TravelStorage.Get (travel.go 56-67)
Get(db, id, fault) ==
    LET got == GetTravel(db, id, fault = FaultGet)
    IN  IF got.err # Nil
        THEN IF got.err = Panic THEN [travel |-> ZeroTravel, err |-> Panic]
             ELSE IF got.err = ErrTravelNotFound
             THEN [travel |-> ZeroTravel, err |-> ErrNotFoundTravel]
             ELSE [travel |-> ZeroTravel, err |-> ErrStorageGet]
        ELSE [travel |-> got.travel, err |-> Nil]

\* faulty variant: the status of the request is stored as it came
Save_KeepsStatus(db, id, travel, fault) ==
    LET saved == SaveTravel(db, id, travel, fault = FaultSave)
    IN  IF saved.err # Nil
        THEN [travel |-> ZeroTravel, err |-> ErrStorageSave, db |-> saved.db]
        ELSE [travel |-> saved.travel, err |-> Nil, db |-> saved.db]

\* TravelStorage.Save (travel.go 70-79)
Save(db, id, travel, fault) ==
    LET saved == SaveTravel(db, id, [travel EXCEPT !.Status = StatusPending], fault = FaultSave)
    IN  IF saved.err # Nil
        THEN [travel |-> ZeroTravel, err |-> ErrStorageSave, db |-> saved.db]
        ELSE [travel |-> saved.travel, err |-> Nil, db |-> saved.db]

\* faulty variant: the validation runs before the caller is looked up, on
\* the zero claims when there are none
UpdateAfterGet_ValidatesFirst(db, got, newTravel, ctx, fault) ==
    LET travel == got.travel
    IN  IF got.err # Nil THEN [travel |-> ZeroTravel, err |-> got.err, db |-> db]
        ELSE IF validateTravelUpdate(travel, newTravel, ctx.claims) # Nil
        THEN [travel |-> ZeroTravel,
              err |-> validateTravelUpdate(travel, newTravel, ctx.claims), db |-> db]
        ELSE IF ~ctx.ok
        THEN [travel |-> ZeroTravel, err |-> ErrInvalidUserClaims, db |-> db]
        ELSE LET merged == [travel EXCEPT !.Status = newTravel.Status,
                                          !.UserID = newTravel.UserID,
                                          !.From = newTravel.From,
                                          !.To = newTravel.To]
                 edited == EditTravel(db, merged, fault = FaultEdit)
             IN  IF edited.err # Nil
                 THEN [travel |-> ZeroTravel, err |-> ErrStorageUpdate, db |-> edited.db]
                 ELSE [travel |-> merged, err |-> Nil, db |-> edited.db]

\* faulty variant: the UPDATE sets only the columns the request changes in
\* the travel it read, and leaves the others as the row holds them
UpdateAfterGet_WritesChanges(db, got, newTravel, ctx, fault) ==
    LET travel == got.travel
    IN  IF got.err # Nil THEN [travel |-> ZeroTravel, err |-> got.err, db |-> db]
        ELSE IF ~ctx.ok
        THEN [travel |-> ZeroTravel, err |-> ErrInvalidUserClaims, db |-> db]
        ELSE IF validateTravelUpdate(travel, newTravel, ctx.claims) # Nil
        THEN [travel |-> ZeroTravel,
              err |-> validateTravelUpdate(travel, newTravel, ctx.claims), db |-> db]
        ELSE LET row == GetTravel(db, travel.ID, FALSE).travel
                 merged == [row EXCEPT
                              !.Status = IF newTravel.Status # travel.Status
                                         THEN newTravel.Status ELSE @,
                              !.UserID = IF newTravel.UserID # travel.UserID
                                         THEN newTravel.UserID ELSE @,
                              !.From = IF newTravel.From # travel.From
                                       THEN newTravel.From ELSE @,
                              !.To = IF newTravel.To # travel.To THEN newTravel.To ELSE @]
                 edited == EditTravel(db, merged, fault = FaultEdit)
             IN  IF edited.err # Nil
                 THEN [travel |-> ZeroTravel, err |-> ErrStorageUpdate, db |-> edited.db]
                 ELSE [travel |-> merged, err |-> Nil, db |-> edited.db]

\* faulty variant: the travel is read again in the step that writes, so the
\* validation and the merge work on the row the UPDATE is about to replace
UpdateAfterGet_ReadsAgain(db, got, newTravel, ctx, fault) ==
    LET travel == Get(db, newTravel.ID, fault).travel
    IN  IF got.err # Nil THEN [travel |-> ZeroTravel, err |-> got.err, db |-> db]
        ELSE IF ~ctx.ok
        THEN [travel |-> ZeroTravel, err |-> ErrInvalidUserClaims, db |-> db]
        ELSE IF validateTravelUpdate(travel, newTravel, ctx.claims) # Nil
        THEN [travel |-> ZeroTravel,
              err |-> validateTravelUpdate(travel, newTravel, ctx.claims), db |-> db]
        ELSE LET merged == [travel EXCEPT !.Status = newTravel.Status,
                                          !.UserID = newTravel.UserID,
                                          !.From = newTravel.From,
                                          !.To = newTravel.To]
                 edited == EditTravel(db, merged, fault = FaultEdit)
             IN  IF edited.err # Nil
                 THEN [travel |-> ZeroTravel, err |-> ErrStorageUpdate, db |-> edited.db]
                 ELSE [travel |-> merged, err |-> Nil, db |-> edited.db]

\* TravelStorage.Update from line 84 on (travel.go 84-115): got is what the
\* Get of line 83 returned, db the table at the time of the write
UpdateAfterGet(db, got, newTravel, ctx, fault) ==
    LET travel == got.travel
    IN  IF got.err # Nil THEN [travel |-> ZeroTravel, err |-> got.err, db |-> db]
        ELSE IF ~ctx.ok
        THEN [travel |-> ZeroTravel, err |-> ErrInvalidUserClaims, db |-> db]
        ELSE IF validateTravelUpdate(travel, newTravel, ctx.claims) # Nil
        THEN [travel |-> ZeroTravel,
              err |-> validateTravelUpdate(travel, newTravel, ctx.claims), db |-> db]
        ELSE LET merged == [travel EXCEPT !.Status = newTravel.Status,
                                          !.UserID = newTravel.UserID,
                                          !.From = newTravel.From,
                                          !.To = newTravel.To]
                 edited == EditTravel(db, merged, fault = FaultEdit)
             IN  IF edited.err # Nil
                 THEN [travel |-> ZeroTravel, err |-> ErrStorageUpdate, db |-> edited.db]
                 ELSE [travel |-> merged, err |-> Nil, db |-> edited.db]

\* TravelStorage.Update (travel.go 82-115): the Get of line 83 and the rest on
\* the same table.  got is bound as the element of a one-element set, so that
\* the travel is read once and every later line works on that value.
Update(db, newTravel, ctx, fault) ==
    CHOOSE r \in {UpdateAfterGet(db, got, newTravel, ctx, fault) :
                    got \in {Get(db, newTravel.ID, fault)}} : TRUE

----------------------------------------------------------------------------
(* The inputs of the calls                                                  *)

\* from (1, 2) to (-1, -2), the route of the tests, in tenths of a degree
BaseRoute == [From |-> [Lat |-> 10, Lng |-> 20], To |-> [Lat |-> -10, Lng |-> -20]]

\* the base route with coordinate k moved by half a degree
Moved(k) ==
    CASE k = 1 -> [BaseRoute EXCEPT !.From.Lat = @ + 5]
      [] k = 2 -> [BaseRoute EXCEPT !.From.Lng = @ + 5]
      [] k = 3 -> [BaseRoute EXCEPT !.To.Lat = @ - 5]
      [] k = 4 -> [BaseRoute EXCEPT !.To.Lng = @ - 5]

\* the routes of the requests: each of the four coordinates differs from the
\* base route in one of them, and two of them differ in two coordinates
Routes == {BaseRoute} \cup {Moved(k) : k \in 1..4}

\* the statuses a request body can carry: the three of the flow, none, and
\* one the flow does not know
Statuses == {StatusPending, StatusInProcess, StatusReady, "", "cancelled"}

UserIDs == 0..MaxUser

TravelIDs == 1..MaxTravels

\* the role of each user of the table `users`: user 1 is the admin that
\* migration.sql inserts, the users created after it are drivers.  The
\* validation reads the role and whether the caller's id is the travel's user
\* id, so an admin and a driver who each own or do not own the travel cover
\* its cases.
RoleOf(u) == IF u = 1 THEN RoleAdmin ELSE RoleDriver

\* the request contexts: without claims, or with the claims of a logged-in
\* user, whose id is a key of the table `users` (so never 0)
Contexts ==
    {[ok |-> FALSE, claims |-> ZeroClaims]}
    \cup {[ok |-> TRUE, claims |-> [UserID |-> u, Role |-> RoleOf(u)]] : u \in 1..MaxUser}

NoContext == [ok |-> FALSE, claims |-> ZeroClaims]

TravelOf(id, status, route, user) ==
    [ID |-> id, Status |-> status, From |-> route.From, To |-> route.To, UserID |-> user]

----------------------------------------------------------------------------
(* The state: the table `travels`, its auto-increment counter, and the call *)
(* in flight.  last records the call that ran: its arguments, the travel    *)
(* the table held for its id when it started, and what it returned.        *)
(* calls holds, for each of two requests handled at the same time, how far  *)
(* its Update call is, what it read, its context and what it returned.      *)

OpNone == "none"
OpSave == "Save"
OpGet == "Get"
OpUpdate == "Update"

Idle ==
    [op |-> OpNone, arg |-> ZeroTravel, ctx |-> NoContext, fault |-> FaultNone,
     found |-> FALSE, stored |-> ZeroTravel, travel |-> ZeroTravel, err |-> Nil]

\* what the table holds for id, as GetTravel reads it
StoredTravel(db, id) == GetTravel(db, id, FALSE).travel

\* the two requests for one travel that the server handles at the same time,
\* each in its own goroutine; "first" is the one whose Get runs first
Racers == {"first", "second"}

\* migration.sql 31: the first admin, row 1 of the table `users`.  A row is
\* [email, password, role]; its id is its place in the table, as the ids are
\* handed out in order and no row is ever deleted.  The password column holds
\* the bcrypt hash, written as the record of the password it was made from.
FirstAdmin ==
    [email |-> "nico.carolo@hotmail.com", password |-> [bcrypt |-> "hola1234"],
     role |-> RoleAdmin]

\* no request handled yet
NoRequest == [handler |-> "none"]

\* no Point converted yet
NoPoint == [phase |-> "none"]

\* a request that has not called Update yet
NotStarted ==
    [phase |-> "idle", id |-> 0, got |-> [travel |-> ZeroTravel, err |-> Nil],
     ctx |-> NoContext, res |-> [travel |-> ZeroTravel, err |-> Nil]]

Init ==
    /\ travels = <<>>
    /\ nextID = 1
    /\ last = Idle
    /\ calls = [p \in Racers |-> NotStarted]
    /\ users = <<FirstAdmin>>
    /\ http = NoRequest
    /\ point = NoPoint

\* a Save call with the repository failing as one of faults tells
CallSaveWith(faults) ==
    /\ last.op = OpNone
    /\ nextID <= MaxTravels
    /\ \E status \in Statuses, route \in Routes, user \in UserIDs, fault \in faults :
         LET arg == TravelOf(0, status, route, user)
             r == Save(travels, nextID, arg, fault)
         IN  /\ travels' = r.db
             /\ nextID' = IF r.err = Nil THEN nextID + 1 ELSE nextID
             /\ last' = [op |-> OpSave, arg |-> arg, ctx |-> NoContext, fault |-> fault,
                         found |-> FALSE, stored |-> ZeroTravel,
                         travel |-> r.travel, err |-> r.err]
             /\ UNCHANGED <<point, calls, users, http>>

\* a Get call
CallGetWith(faults) ==
    /\ last.op = OpNone
    /\ \E id \in TravelIDs, fault \in faults :
         LET r == Get(travels, id, fault)
         IN  /\ last' = [op |-> OpGet, arg |-> [ZeroTravel EXCEPT !.ID = id],
                         ctx |-> NoContext, fault |-> fault,
                         found |-> id \in DOMAIN travels,
                         stored |-> StoredTravel(travels, id),
                         travel |-> r.travel, err |-> r.err]
             /\ UNCHANGED <<point, travels, nextID, calls, users, http>>

\* an Update call
CallUpdateWith(faults) ==
    /\ last.op = OpNone
    /\ \E id \in TravelIDs, status \in Statuses, route \in Routes, user \in UserIDs,
          ctx \in Contexts, fault \in faults :
         LET arg == TravelOf(id, status, route, user)
         IN  \E r \in {Update(travels, arg, ctx, fault)} :
             /\ travels' = r.db
             /\ last' = [op |-> OpUpdate, arg |-> arg, ctx |-> ctx, fault |-> fault,
                         found |-> id \in DOMAIN travels,
                         stored |-> StoredTravel(travels, id),
                         travel |-> r.travel, err |-> r.err]
             /\ UNCHANGED <<point, nextID, calls, users, http>>

\* the calls of a service whose database connection works
CallSave == CallSaveWith({FaultNone})

CallGet == CallGetWith({FaultNone})

CallUpdate == CallUpdateWith({FaultNone})

\* the result of the call in flight is handed to the caller
Respond ==
    /\ last.op # OpNone
    /\ last' = Idle
    /\ UNCHANGED <<point, travels, nextID, calls, users, http>>

Next == CallSave \/ CallGet \/ CallUpdate \/ Respond

Spec == Init /\ [][Next]_vars

\* the calls of a service whose database may fail the statement of a call:
\* the INSERT of a Save, the SELECT of a Get or of an Update, the UPDATE of an
\* Update
FaultySave == CallSaveWith({FaultNone, FaultSave})

FaultyGet == CallGetWith({FaultNone, FaultGet})

FaultyUpdate == CallUpdateWith({FaultNone, FaultGet, FaultEdit})

NextFaulty == FaultySave \/ FaultyGet \/ FaultyUpdate \/ Respond

SpecFaulty == Init /\ [][NextFaulty]_vars

\* no racing request has started
NoRace == \A p \in Racers : calls[p].phase = "idle"

\* travel.go 83 of the Update call of request p: the Get.  The other fields of
\* the request are first used after it, and are drawn where they are used.
ReadTravel(p) ==
    /\ last.op = OpNone
    /\ calls[p].phase = "idle"
    /\ p = "second" => calls["first"].phase # "idle"
    /\ \E id \in TravelIDs :
         /\ \A q \in Racers : calls[q].phase # "idle" => calls[q].id = id
         /\ calls' = [calls EXCEPT ![p] = [NotStarted EXCEPT !.phase = "read", !.id = id,
                                                         !.got = Get(travels, id, FaultNone)]]
    /\ UNCHANGED <<point, travels, nextID, last, users, http>>

\* travel.go 84-115 of the Update call of request p: the claims, the
\* validation and the merge on the travel it read, and EditTravel on the table
\* as it is now
WriteTravel(p) ==
    /\ last.op = OpNone
    /\ calls[p].phase = "read"
    /\ \E status \in Statuses, route \in Routes, user \in UserIDs, ctx \in Contexts :
         LET arg == TravelOf(calls[p].id, status, route, user)
         IN  \E r \in {UpdateAfterGet(travels, calls[p].got, arg, ctx, FaultNone)} :
             /\ travels' = r.db
             /\ calls' = [calls EXCEPT ![p] = [@ EXCEPT !.phase = "done", !.ctx = ctx,
                                                        !.res = [travel |-> r.travel, err |-> r.err]]]
    /\ UNCHANGED <<point, nextID, last, users, http>>

\* calls made one at a time create and move the travel that the two requests
\* then race for; the rows of other travels play no part, as the UPDATE of
\* EditTravel touches the row of its id only
NextRace ==
    \/ (NoRace /\ travels = <<>> /\ CallSave)
    \/ (NoRace /\ CallUpdate)
    \/ Respond
    \/ \E p \in Racers : ReadTravel(p)
    \/ \E p \in Racers : WriteTravel(p)

SpecRace == Init /\ [][NextRace]_vars

----------------------------------------------------------------------------
(* The vocabulary of the properties: the call in flight seen as the spec    *)
(* describes it (current travel, proposed travel, caller).                  *)

\* the travel as stored when the call started, the proposed state, the caller
Cur == last.stored

Prop == last.arg

Caller == last.ctx.claims

\* what the table holds now for the travel the call is about
Now == StoredTravel(travels, last.arg.ID)

\* the call was an Update that read its travel and knew its caller, so the
\* validation ran
ReachedValidation ==
    last.op = OpUpdate /\ last.found /\ last.fault # FaultGet /\ last.ctx.ok

IsAdmin == Caller.Role = "admin"

IsOwner == Caller.UserID = Cur.UserID

\* position in the lifecycle pending(0), in_process(1), ready(2); -1 outside it
Index(status) ==
    CASE status = "pending" -> 0
      [] status = "in_process" -> 1
      [] status = "ready" -> 2
      [] OTHER -> -1

Lifecycle == {"pending", "in_process", "ready"}

RouteDiffers ==
    \/ Cur.From.Lat # Prop.From.Lat
    \/ Cur.From.Lng # Prop.From.Lng
    \/ Cur.To.Lat # Prop.To.Lat
    \/ Cur.To.Lng # Prop.To.Lng

\* the caller passes both authorization steps: an admin, or the owner who
\* leaves the assigned user as it is
PassesAuthorization ==
    IsAdmin \/ (IsOwner /\ Prop.UserID = Cur.UserID)

\* the proposal breaks no rule other than, possibly, the status transition
OtherwiseValid ==
    /\ PassesAuthorization
    /\ (RouteDiffers => Cur.Status = "pending")
    /\ Prop.Status \in Lifecycle
    /\ (Prop.UserID = 0 => Cur.Status = "pending" /\ Prop.Status = "pending")
    /\ (Prop.UserID # Cur.UserID /\ Cur.UserID # 0 => Prop.Status = "pending")

----------------------------------------------------------------------------
C2_StatusGate ==
    ReachedValidation =>
        /\ (last.err = Nil => Index(Prop.Status) \in {Index(Cur.Status), Index(Cur.Status) + 1})
        /\ (OtherwiseValid =>
              /\ (Index(Prop.Status) = Index(Cur.Status) + 1
                    => (last.err = Nil /\ Now.Status = Prop.Status))
              /\ (Index(Prop.Status) = Index(Cur.Status)
                    => last.err # ErrInvalidStatusToEdit)
              /\ (Index(Prop.Status) \notin {Index(Cur.Status), Index(Cur.Status) + 1}
                    => (last.err = ErrInvalidStatusToEdit /\ Now = Cur)))

\* in_process to ready is accepted
C2_Witness ==
    /\ ReachedValidation
    /\ Cur.Status = "in_process"
    /\ Prop.Status = "ready"
    /\ last.err = Nil
    /\ Now.Status = "ready"

(* C3.  Over any sequence of calls made one at a time, the stored status of *)
(* a travel never goes back and never advances by more than one step in a   *)
(* single call.                                                             *)
C3_StatusMovesForward ==
    [][\A id \in DOMAIN travels :
          /\ id \in DOMAIN travels'
          /\ Index(travels'[id].status)
                \in {Index(travels[id].status), Index(travels[id].status) + 1}]_vars

\* a travel that went all the way: the accepted update that made it ready
C3_Witness ==
    /\ ReachedValidation
    /\ last.err = Nil
    /\ Cur.Status = "in_process"
    /\ Now.Status = "ready"
    /\ travels[last.arg.ID].status = "ready"

(* C4.  Every stored travel has a status of the lifecycle, and an assigned  *)
(* user (not NULL, not 0) whenever that status is not pending.              *)
C4_StoredTravelValid ==
    \A id \in DOMAIN travels :
        /\ travels[id].status \in Lifecycle
        /\ (travels[id].status # "pending"
              => (travels[id].user_id.Valid /\ travels[id].user_id.Int64 # 0))

\* a travel that left pending, with its assigned user
C4_Witness ==
    \E id \in DOMAIN travels :
        /\ travels[id].status = "in_process"
        /\ travels[id].user_id.Valid
        /\ travels[id].user_id.Int64 # 0
        /\ last.op = OpUpdate
        /\ last.err = Nil

(* C5, as stated.  For a stored travel that is not pending, an Update that  *)
(* changes any of the four coordinates is rejected with                     *)
(* invalid-location-edit whatever the other proposed fields are.            *)
C5_LocationEditAlwaysRejectedAsSuch ==
    (ReachedValidation /\ Cur.Status # "pending" /\ RouteDiffers)
        => last.err = ErrInvalidStatusToEditLocation

(* C5, amended.  For a stored travel that is not pending, an Update that    *)
(* changes any of the four coordinates is rejected and nothing is written:  *)
(* with invalid-location-edit, whatever the proposed status and user id,    *)
(* when the caller passes the two authorization steps (an admin, or the     *)
(* owner leaving the assigned user as it is), and with unauthorized-access  *)
(* otherwise.                                                               *)
C5_LocationEditRejected ==
    (ReachedValidation /\ Cur.Status # "pending" /\ RouteDiffers)
        => /\ Now = Cur
           /\ IF IsAdmin \/ (IsOwner /\ Prop.UserID = Cur.UserID)
              THEN last.err = ErrInvalidStatusToEditLocation
              ELSE last.err = ErrInvalidUserAccess

\* an admin moves only the longitude of the destination of a ready travel and
\* sends a status outside the lifecycle and another user
C5_Witness ==
    /\ ReachedValidation
    /\ IsAdmin
    /\ Cur.Status = "ready"
    /\ Cur.From = Prop.From
    /\ Cur.To.Lat = Prop.To.Lat
    /\ Cur.To.Lng # Prop.To.Lng
    /\ Prop.Status \notin Lifecycle
    /\ Prop.UserID # Cur.UserID
    /\ last.err = ErrInvalidStatusToEditLocation

(* C6.  A caller who is not an admin, owns the travel and proposes another  *)
(* assigned user id (a user or 0) is rejected with unauthorized-access,     *)
(* also when the proposed status is pending; an accepted Update that        *)
(* changes the owner of an owned travel comes from an admin.                *)
C6_OnlyAdminChangesOwner ==
    ReachedValidation =>
        /\ (~IsAdmin /\ IsOwner /\ Cur.UserID # 0 /\ Prop.UserID # Cur.UserID
              => (last.err = ErrInvalidUserAccess /\ Now = Cur))
        /\ (last.err = Nil /\ Cur.UserID # 0 /\ Prop.UserID # Cur.UserID => IsAdmin)

\* the owner of a pending travel, a driver, gives the travel up keeping it pending
C6_Witness ==
    /\ ReachedValidation
    /\ ~IsAdmin
    /\ IsOwner
    /\ Cur.UserID # 0
    /\ Cur.Status = "pending"
    /\ Prop.Status = "pending"
    /\ Prop.UserID = 0
    /\ last.err = ErrInvalidUserAccess

(* C7.  When an admin changes the assigned user of an owned travel: the     *)
(* Update is accepted only with proposed status pending; with unchanged     *)
(* locations and proposed status in_process or ready it is rejected with    *)
(* invalid-user; with stored and proposed status both pending it is         *)
(* accepted and the proposed user becomes the stored owner.                 *)
C7_AdminReassignment ==
    (ReachedValidation /\ IsAdmin /\ Cur.UserID # 0 /\ Prop.UserID # Cur.UserID)
        => /\ (last.err = Nil => Prop.Status = "pending")
           /\ (~RouteDiffers /\ Prop.Status \in {"in_process", "ready"}
                 => (last.err = ErrInvalidUser /\ Now = Cur))
           /\ (Cur.Status = "pending" /\ Prop.Status = "pending"
                 => (last.err = Nil /\ Now.UserID = Prop.UserID))

\* an admin hands a pending travel from one user to another
C7_Witness ==
    /\ ReachedValidation
    /\ IsAdmin
    /\ Cur.Status = "pending"
    /\ Prop.Status = "pending"
    /\ Cur.UserID # 0
    /\ Prop.UserID # 0
    /\ Prop.UserID # Cur.UserID
    /\ last.err = Nil
    /\ Now.UserID = Prop.UserID

(* C8.  With a caller who passes the authorization steps, unchanged         *)
(* locations and a proposed status of the lifecycle, an Update proposing    *)
(* assigned user id 0 is rejected with invalid-user whenever the stored     *)
(* status or the proposed status is not pending.                            *)
C8_UserRequiredOutsidePending ==
    (/\ ReachedValidation
     /\ PassesAuthorization
     /\ ~RouteDiffers
     /\ Prop.Status \in Lifecycle
     /\ Prop.UserID = 0
     /\ (Cur.Status # "pending" \/ Prop.Status # "pending"))
        => (last.err = ErrInvalidUser /\ Now = Cur)

\* a pending travel without user is sent to in_process without a user
C8_Witness ==
    /\ ReachedValidation
    /\ PassesAuthorization
    /\ ~RouteDiffers
    /\ Cur.Status = "pending"
    /\ Cur.UserID = 0
    /\ Prop.Status = "in_process"
    /\ Prop.UserID = 0
    /\ last.err = ErrInvalidUser

\* the rejection of the first failing step of the decision sequence, in the
\* order ownership, ownership transfer, location, status value, the three
\* assignment steps, transition; Nil when no step fails
FirstFailure(cur, prop, caller) ==
    CASE cur.UserID # caller.UserID /\ caller.Role # "admin"
            -> ErrInvalidUserAccess
      [] prop.UserID # cur.UserID /\ cur.UserID # 0 /\ caller.Role # "admin"
            -> ErrInvalidUserAccess
      [] (cur.From # prop.From \/ cur.To # prop.To) /\ cur.Status # "pending"
            -> ErrInvalidStatusToEditLocation
      [] prop.Status \notin Lifecycle
            -> ErrInvalidStatusToEdit
      [] cur.Status # "pending" /\ prop.UserID = 0
            -> ErrInvalidUser
      [] prop.Status # "pending" /\ prop.UserID = 0
            -> ErrInvalidUser
      [] prop.UserID # cur.UserID /\ cur.UserID # 0 /\ prop.Status # "pending"
            -> ErrInvalidUser
      [] Index(prop.Status) # Index(cur.Status) /\ Index(prop.Status) # Index(cur.Status) + 1
            -> ErrInvalidStatusToEdit
      [] OTHER -> Nil

\* the rejections the decision sequence produces
Rejections ==
    {ErrInvalidUserAccess, ErrInvalidStatusToEditLocation, ErrInvalidStatusToEdit, ErrInvalidUser}

(* C9.  An Update that breaks several rules returns the rejection of the    *)
(* first failing step of the decision sequence, for every stored travel,    *)
(* proposal and caller; when no step fails it returns none of the           *)
(* rejections.                                                              *)
C9_FirstFailureWins ==
    ReachedValidation =>
        IF FirstFailure(Cur, Prop, Caller) # Nil
        THEN last.err = FirstFailure(Cur, Prop, Caller) /\ Now = Cur
        ELSE last.err \notin Rejections

\* an admin changes the owner and skips in_process: invalid-user, not invalid-status
C9_Witness ==
    /\ ReachedValidation
    /\ IsAdmin
    /\ Cur.Status = "pending"
    /\ Prop.Status = "ready"
    /\ Cur.UserID # 0
    /\ Prop.UserID # 0
    /\ Prop.UserID # Cur.UserID
    /\ last.err = ErrInvalidUser

(* C10.  An Update by an admin or by the owner of the travel whose proposed *)
(* status, locations and assigned user are exactly the stored ones          *)
(* succeeds, returns the stored record and leaves it unchanged.             *)
C10_NoOpUpdateSucceeds ==
    (/\ ReachedValidation
     /\ last.fault = FaultNone
     /\ (IsAdmin \/ IsOwner)
     /\ Prop.Status = Cur.Status
     /\ Prop.From = Cur.From
     /\ Prop.To = Cur.To
     /\ Prop.UserID = Cur.UserID)
        => (last.err = Nil /\ last.travel = Cur /\ Now = Cur)

\* the proposed move along the lifecycle is the same status or the next one
ValidMove == Index(Prop.Status) \in {Index(Cur.Status), Index(Cur.Status) + 1}

(* C11.  An accepted Update returns the travel that was read with its       *)
(* status, assigned user id, from and to replaced by the proposed ones and  *)
(* its id kept, and the table then holds exactly that travel under that id; *)
(* no call removes or renumbers a stored travel.                            *)
C11_AcceptedUpdateMerges ==
    /\ (ReachedValidation /\ last.err = Nil)
          => /\ last.travel = [Prop EXCEPT !.ID = Cur.ID]
             /\ Cur.ID = last.arg.ID
             /\ Now = last.travel
    /\ \A id \in DOMAIN travels : id < nextID /\ StoredTravel(travels, id).ID = id

\* an accepted update that replaced status, user and a location at once
C11_Witness ==
    /\ ReachedValidation
    /\ last.err = Nil
    /\ Prop.Status # Cur.Status
    /\ Prop.UserID # Cur.UserID
    /\ Prop.From # Cur.From
    /\ Now = [Prop EXCEPT !.ID = Cur.ID]
    /\ Now.ID = Cur.ID

(* C12.  For a stored travel that is pending, an Update by an authorized    *)
(* caller that changes from and/or to and breaks no other rule is accepted, *)
(* and the stored locations become the proposed ones.                       *)
C12_PendingLocationEdit ==
    (/\ ReachedValidation
     /\ Cur.Status = "pending"
     /\ RouteDiffers
     /\ OtherwiseValid
     /\ ValidMove)
        => (last.err = Nil /\ Now.From = Prop.From /\ Now.To = Prop.To)

\* the owner, a driver, moves the destination of their pending travel
C12_Witness ==
    /\ ReachedValidation
    /\ ~IsAdmin
    /\ IsOwner
    /\ Cur.Status = "pending"
    /\ Prop.Status = "pending"
    /\ Cur.To # Prop.To
    /\ last.err = Nil
    /\ Now.To = Prop.To

(* C13.  An Update whose proposed status is not pending, in_process or      *)
(* ready (no status included) is rejected with invalid-status and writes    *)
(* nothing, when the caller passes the authorization steps and no location  *)
(* of a non-pending travel is changed.                                      *)
C13_UnknownStatusRejected ==
    (/\ ReachedValidation
     /\ PassesAuthorization
     /\ (RouteDiffers => Cur.Status = "pending")
     /\ Prop.Status \notin Lifecycle)
        => (last.err = ErrInvalidStatusToEdit /\ Now = Cur)

\* a request without status and without user on a pending travel
C13_Witness ==
    /\ ReachedValidation
    /\ PassesAuthorization
    /\ Cur.Status = "pending"
    /\ Prop.Status = ""
    /\ Prop.UserID = 0
    /\ last.err = ErrInvalidStatusToEdit

(* C14.  A Save stores the new travel with status pending whatever status   *)
(* the request carried, keeps the locations and the user id of the request, *)
(* and returns the stored travel with the id the table generated; when the  *)
(* INSERT fails it returns storage-save and the table is left as it was.    *)
C14_CreateStoresPending ==
    [][(last.op = OpNone /\ last'.op = OpSave) =>
         IF last'.fault = FaultSave
         THEN /\ last'.err = ErrStorageSave
              /\ last'.travel = ZeroTravel
              /\ travels' = travels
              /\ nextID' = nextID
         ELSE /\ last'.err = Nil
              /\ last'.travel = [last'.arg EXCEPT !.ID = nextID, !.Status = "pending"]
              /\ DOMAIN travels' = DOMAIN travels \cup {nextID}
              /\ nextID \notin DOMAIN travels
              /\ StoredTravel(travels', nextID) = last'.travel
              /\ \A id \in DOMAIN travels : travels'[id] = travels[id]]_vars

\* a request carrying in_process and a user is stored as pending
C14_Witness ==
    /\ last.op = OpSave
    /\ last.arg.Status = "in_process"
    /\ last.arg.UserID # 0
    /\ last.err = Nil
    /\ last.travel.ID \in DOMAIN travels
    /\ StoredTravel(travels, last.travel.ID).Status = "pending"
    /\ StoredTravel(travels, last.travel.ID).UserID = last.arg.UserID

C16_StorageErrors ==
    /\ last.op = OpGet =>
          /\ (last.fault = FaultGet => last.err = ErrStorageGet)
          /\ (last.fault # FaultGet /\ ~last.found => last.err = ErrNotFoundTravel)
          /\ (last.fault # FaultGet /\ last.found => last.err = Nil /\ last.travel = Now)
    /\ last.op = OpUpdate =>
          /\ (last.fault = FaultGet => last.err = ErrStorageGet /\ Now = Cur)
          /\ (last.fault # FaultGet /\ ~last.found => last.err = ErrNotFoundTravel /\ Now = Cur)
          /\ (ReachedValidation /\ FirstFailure(Cur, Prop, Caller) = Nil /\ last.fault = FaultEdit
                => last.err = ErrStorageUpdate /\ Now = Cur)

\* the read of an Update fails: storage-get, though the call has no claims
C16_Witness ==
    /\ last.op = OpUpdate
    /\ last.found
    /\ last.fault = FaultGet
    /\ ~last.ctx.ok
    /\ last.err = ErrStorageGet

\* the racing requests whose Update call returned without error
Accepted == {p \in Racers : calls[p].phase = "done" /\ calls[p].res.err = Nil}

(* C17.  When two Update calls run at the same time, each accepted one was  *)
(* validated against the travel it read, not against the row its write      *)
(* replaces: its status is the read status or the next one and, when the    *)
(* read travel had left pending, its locations and user are the read ones;  *)
(* the write replaces the row whatever it holds by then, so after two       *)
(* accepted calls on one id the row is what one of them wrote.  (The        *)
(* witness is the execution the claim announces: both read the pending      *)
(* travel, one moves it to in_process, the other then writes it back to     *)
(* pending, which calls made one at a time never do.)                       *)
C17_WritesFollowStaleRead ==
    /\ \A p \in Accepted :
          LET read == calls[p].got.travel
              wrote == calls[p].res.travel
          IN  /\ wrote.ID = calls[p].id
              /\ Index(wrote.Status) \in {Index(read.Status), Index(read.Status) + 1}
              /\ (read.Status # "pending"
                    => wrote.From = read.From /\ wrote.To = read.To /\ wrote.UserID = read.UserID)
    /\ \A p \in Accepted, q \in Accepted :
          (p # q /\ calls[p].id = calls[q].id)
             => StoredTravel(travels, calls[p].id) \in {calls[p].res.travel, calls[q].res.travel}

\* both requests read the pending travel; p moved it to in_process, then q,
\* accepted on what it had read, wrote it back to pending with another origin
C17_Witness ==
    \E p \in Accepted, q \in Accepted :
        /\ p # q
        /\ calls[p].id = calls[q].id
        /\ calls[p].got = calls[q].got
        /\ calls[p].got.travel.Status = "pending"
        /\ calls[p].res.travel.Status = "in_process"
        /\ calls[q].res.travel.Status = "pending"
        /\ calls[q].res.travel.From # calls[p].res.travel.From
        /\ StoredTravel(travels, calls[q].id) = calls[q].res.travel

(* C18.  An Update by a driver on a travel without assigned user that       *)
(* proposes the driver's own user id, with otherwise valid fields, is       *)
(* accepted and the driver becomes the assigned user.                       *)
C18_DriverTakesUnassignedTravel ==
    (/\ ReachedValidation
     /\ ~IsAdmin
     /\ Cur.UserID = 0
     /\ Prop.UserID = Caller.UserID
     /\ (RouteDiffers => Cur.Status = "pending")
     /\ Prop.Status \in Lifecycle
     /\ ValidMove)
        => (last.err = Nil /\ Now.UserID = Caller.UserID)

(* C19.  Over any sequence of calls made one at a time, a stored travel     *)
(* whose status is in_process or ready keeps its from, to and assigned user *)
(* in every later call, and an accepted Update on such a travel proposes    *)
(* the user the travel already has.                                         *)
C19_FrozenOutsidePending ==
    [][\A id \in DOMAIN travels :
          travels[id].status # "pending"
             => /\ id \in DOMAIN travels'
                /\ travels'[id].from = travels[id].from
                /\ travels'[id].to = travels[id].to
                /\ travels'[id].user_id = travels[id].user_id
                /\ (last'.op = OpUpdate /\ last'.arg.ID = id /\ last'.err = Nil
                      => last'.arg.UserID = travels[id].user_id.Int64)]_vars

\* an accepted update of an in_process travel: only the status moved
C19_Witness ==
    /\ ReachedValidation
    /\ last.err = Nil
    /\ Cur.Status = "in_process"
    /\ Now.Status = "ready"
    /\ Now.From = Cur.From
    /\ Now.To = Cur.To
    /\ Now.UserID = Cur.UserID
    /\ Prop.UserID = Cur.UserID

\* the status changes of the state machine: the two moves and the self-loops
Transitions ==
    {<<"pending", "in_process">>, <<"in_process", "ready">>}
    \cup {<<st, st>> : st \in Lifecycle}

(* C20.  The status changes made by accepted Updates are pending to         *)
(* in_process, in_process to ready and the self-loop on each status; ready  *)
(* is terminal: a ready travel stays ready and an Update proposing another  *)
(* status for it is rejected; and each of the changes can be made: an       *)
(* Update that proposes one of them and that the validation does not        *)
(* refuse is accepted (for in_process and ready the self-loop has no other  *)
(* candidate, as nothing else of such a travel may change).                 *)
C20_StatusMachine ==
    ReachedValidation =>
        /\ (last.err = Nil => (<<Cur.Status, Now.Status>> \in Transitions
                                /\ Now.Status = Prop.Status))
        /\ (last.err # Nil => Now.Status = Cur.Status)
        /\ (Cur.Status = "ready"
              => (Now.Status = "ready" /\ (Prop.Status # "ready" => last.err # Nil)))
        /\ (/\ <<Cur.Status, Prop.Status>> \in Transitions
            /\ Cur.Status # "pending"
            /\ FirstFailure(Cur, Prop, Caller) = Nil
               => last.err = Nil)

----------------------------------------------------------------------------
(* user.go 141-148: the errors of the user service, and the error of the    *)
(* user repository (the names shared with the travel service carry the      *)
(* package)                                                                  *)
ErrInvalidPasswordToSave ==
    [Code |-> "invalid_password", Detail |-> "cannot assign received password to user"]
ErrInvalidPasswordToLogin ==
    [Code |-> "invalid_password", Detail |-> "the password received to login is invalid"]
user_ErrStorageSave == [Code |-> "storage_failure", Detail |-> "save user"]
user_ErrStorageGet == [Code |-> "storage_failure", Detail |-> "get user"]
ErrNotFoundUser == [Code |-> "not_found_user", Detail |-> "not founded the user to get"]
ErrInvalidRole ==
    [Code |-> "invalid_role", Detail |-> "the received role should be admin or driver"]
ErrUserNotFound == [Code |-> "repository", Detail |-> "not founded user"]

\* User{}
ZeroUser == [ID |-> 0, Email |-> "", Password |-> "", Role |-> ""]
\* SecuredUser{}
ZeroSecuredUser == [ID |-> 0, Email |-> "", Role |-> ""]

\* row id of the table udb as a User
UserOfRow(udb, id) ==
    [ID |-> id, Email |-> udb[id].email, Password |-> udb[id].password,
     Role |-> udb[id].role]

\* SqlRepository.GetUser: SELECT * FROM users WHERE id = ?
GetUser(udb, id, sqlErr) ==
    IF sqlErr THEN [user |-> ZeroUser, err |-> ErrSql]
    ELSE IF id \notin 1..Len(udb) THEN [user |-> ZeroUser, err |-> ErrUserNotFound]
    ELSE [user |-> UserOfRow(udb, id), err |-> Nil]

\* the repository call of the user service that database/sql fails
FaultGetUser == "get_user"

\* UserStorage.Get (user.go 193-211)
UserStorage_Get(udb, id, fault) ==
    LET got == GetUser(udb, id, fault = FaultGetUser)
    IN  IF got.err # Nil
        THEN IF got.err = ErrUserNotFound
             THEN [user |-> ZeroSecuredUser, err |-> ErrNotFoundUser]
             ELSE [user |-> ZeroSecuredUser, err |-> user_ErrStorageGet]
        ELSE [user |-> [ID |-> got.user.ID, Email |-> got.user.Email, Role |-> got.user.Role],
              err |-> Nil]

----------------------------------------------------------------------------
(* cmd/api/handlers: the handlers of the travels.  A response is the status *)
(* code and the code of the apiError of its body ("" when the body is the   *)
(* resource).                                                                *)

StatusOK == 200
StatusCreated == 201
StatusBadRequest == 400
StatusUnauthorized == 401
StatusNotFound == 404
StatusUnprocessableEntity == 422
StatusInternalServerError == 500

\* faulty variant: the error of the missing claims is not in the map
mapTravelError_NoClaims(err) ==
    CASE err \in {ErrStorageSave, ErrStorageUpdate, ErrStorageGet} -> StatusInternalServerError
      [] err = ErrNotFoundTravel -> StatusNotFound
      [] err \in {ErrInvalidStatusToEditLocation, ErrInvalidStatusToEdit, ErrInvalidUser}
           -> StatusBadRequest
      [] err = ErrInvalidUserAccess -> StatusUnauthorized
      [] OTHER -> StatusInternalServerError

\* mapTravelError: the status code of an error of the travel service
mapTravelError(err) ==
    CASE err \in {ErrStorageSave, ErrStorageUpdate, ErrStorageGet} -> StatusInternalServerError
      [] err = ErrNotFoundTravel -> StatusNotFound
      [] err \in {ErrInvalidStatusToEditLocation, ErrInvalidStatusToEdit, ErrInvalidUser}
           -> StatusBadRequest
      [] err \in {ErrInvalidUserClaims, ErrInvalidUserAccess} -> StatusUnauthorized
      [] OTHER -> StatusInternalServerError

\* the keys of errToStatus in mapTravelError
errToStatus ==
    {ErrStorageSave, ErrStorageUpdate, ErrStorageGet, ErrNotFoundTravel,
     ErrInvalidStatusToEditLocation, ErrInvalidStatusToEdit, ErrInvalidUser,
     ErrInvalidUserClaims, ErrInvalidUserAccess}

\* mapTravelError: the body of the answer to an error of the travel service,
\* the code and the detail of an error of the map, and "error" with the text
\* of the error for any other
apiErrorOf(err) ==
    IF err \in errToStatus
    THEN [Code |-> err.Code, Description |-> err.Detail]
    ELSE [Code |-> "error", Description |-> err.Code \o " - " \o err.Detail]

\* the code of the body written for an error of the travel service; a panic
\* unwinds the handler and panicRecover (main.go 159-164) writes the body
ErrorCode(err) == IF err = Panic THEN "unexpected_error" ELSE apiErrorOf(err).Code

\* the outcomes of the look-up of the assigned user by a handler
CheckSkipped == "skipped"
CheckFound == "found"
CheckNotFound == "not_found"
CheckFailed == "failed"

CheckOf(err) ==
    IF err = Nil THEN CheckFound
    ELSE IF err = ErrNotFoundUser THEN CheckNotFound
    ELSE CheckFailed

\* what a handler of the travels answers and leaves: the response, the travel
\* of its body, the table, the outcome of the look-up of the assigned user and
\* whether the travel service was called
Answer(status, code, travel, db, check, called) ==
    [status |-> status, code |-> code, travel |-> travel, db |-> db,
     check |-> check, called |-> called]

\* the answer made from what the travel service returned
AnswerOf(r, db, success, check) ==
    IF r.err # Nil
    THEN Answer(IF r.err = Panic THEN StatusInternalServerError ELSE mapTravelError(r.err),
                ErrorCode(r.err), ZeroTravel, db, check, TRUE)
    ELSE Answer(success, "", r.travel, db, check, TRUE)

\* TravelHandler.Get.  A request is [idOk, id, bodyOk, travel]: whether the
\* id of the url parses, the id, whether the body binds, the travel bound.
TravelHandler_Get(db, req, fault) ==
    IF ~req.idOk
    THEN Answer(StatusBadRequest, "invalid_request", ZeroTravel, db, CheckSkipped, FALSE)
    ELSE CHOOSE a \in {AnswerOf(r, db, StatusOK, CheckSkipped) :
                         r \in {Get(db, req.id, fault)}} : TRUE

\* TravelHandler.Create; id is the id the table hands out next
TravelHandler_Create(db, id, req, fault) ==
    IF ~req.bodyOk
    THEN Answer(StatusUnprocessableEntity, "invalid_request", ZeroTravel, db,
                CheckSkipped, FALSE)
    ELSE CHOOSE a \in {AnswerOf(r, r.db, StatusCreated, CheckSkipped) :
                         r \in {Save(db, id, req.travel, fault)}} : TRUE

\* TravelHandler.Edit
TravelHandler_Edit(db, udb, req, ctx, fault) ==
    IF ~req.idOk
    THEN Answer(StatusBadRequest, "invalid_request", ZeroTravel, db, CheckSkipped, FALSE)
    ELSE IF ~req.bodyOk
    THEN Answer(StatusUnprocessableEntity, "invalid_request", ZeroTravel, db,
                CheckSkipped, FALSE)
    ELSE LET travelToUpdate == [req.travel EXCEPT !.ID = req.id]
             check == IF travelToUpdate.UserID # 0
                      THEN CheckOf(UserStorage_Get(udb, travelToUpdate.UserID, fault).err)
                      ELSE CheckSkipped
         IN  IF check = CheckNotFound
             THEN Answer(StatusBadRequest, "invalid_travel_user", ZeroTravel, db, check, FALSE)
             ELSE CHOOSE a \in {AnswerOf(r, r.db, StatusOK, check) :
                                  r \in {Update(db, travelToUpdate, ctx, fault)}} : TRUE

----------------------------------------------------------------------------
(* The user repository (SqlRepository over the table `users`) and the user  *)
(* service                                                                   *)

\* the users table holds at most MaxUser rows
UserTableFull(udb) == Len(udb) >= MaxUser

\* the text a text is compared as by the tables: their columns have the
\* default collation of the server (mysql:5.6 of db.Dockerfile, no collation
\* in migration.sql), which does not tell upper case from lower case.  The
\* texts of the model that hold upper case are listed.
Fold(text) ==
    CASE text = "Pending" -> "pending"
      [] text = "NICO.CAROLO@HOTMAIL.COM" -> "nico.carolo@hotmail.com"
      [] OTHER -> text

\* a = b as a statement of the tables evaluates it on two texts
SqlEq(a, b) == Fold(a) = Fold(b)

\* the ids of the rows of udb that hold this email
RowsOfEmail(udb, email) == {id \in 1..Len(udb) : SqlEq(udb[id].email, email)}

\* SqlRepository.SaveUser: INSERT INTO users(email, password, role).  The
\* statement fails on an email the table holds (users_email_uindex,
\* migration.sql 21-22); the id is the one the table hands out.
SaveUser(udb, user, sqlErr) ==
    IF sqlErr \/ RowsOfEmail(udb, user.Email) # {}
    THEN [user |-> ZeroUser, err |-> ErrSql, udb |-> udb]
    ELSE [user |-> [user EXCEPT !.ID = Len(udb) + 1], err |-> Nil,
          udb |-> Append(udb, [email |-> user.Email, password |-> user.Password,
                               role |-> user.Role])]

\* SqlRepository.GetUserByEmail: SELECT * FROM users WHERE email = ?
GetUserByEmail(udb, email, sqlErr) ==
    IF sqlErr THEN [user |-> ZeroUser, err |-> ErrSql]
    ELSE IF RowsOfEmail(udb, email) = {} THEN [user |-> ZeroUser, err |-> ErrUserNotFound]
    ELSE [user |-> UserOfRow(udb, CHOOSE id \in RowsOfEmail(udb, email) : TRUE),
          err |-> Nil]

\* bcryptEncrypt.Encrypt: the hash of a password, a value that is not the
\* password and that Compare matches with that password only
Encrypt(pwd) == [bcrypt |-> pwd]

\* bcryptEncrypt.Compare: TRUE when it returns no error
Compare(encrypted, pwd) == encrypted = Encrypt(pwd)

FaultEncrypt == "encrypt"
FaultSaveUser == "save_user"
FaultGetByEmail == "get_by_email"

\* faulty variant: the role is not looked at
UserStorage_Save_AnyRole(udb, user, fault) ==
    IF fault = FaultEncrypt
    THEN [user |-> ZeroSecuredUser, err |-> ErrInvalidPasswordToSave, udb |-> udb]
    ELSE LET saved == SaveUser(udb, [user EXCEPT !.Password = Encrypt(user.Password)],
                               fault = FaultSaveUser)
         IN  IF saved.err # Nil
             THEN [user |-> ZeroSecuredUser, err |-> user_ErrStorageSave, udb |-> saved.udb]
             ELSE [user |-> [ID |-> saved.user.ID, Email |-> saved.user.Email,
                             Role |-> saved.user.Role],
                   err |-> Nil, udb |-> saved.udb]

\* UserStorage.Save (user.go 213-238); the fault FaultEncrypt is the
\* PasswordEncrypter of the storage returning an error
UserStorage_Save(udb, user, fault) ==
    IF fault = FaultEncrypt
    THEN [user |-> ZeroSecuredUser, err |-> ErrInvalidPasswordToSave, udb |-> udb]
    ELSE IF user.Role # RoleDriver /\ user.Role # RoleAdmin
    THEN [user |-> ZeroSecuredUser, err |-> ErrInvalidRole, udb |-> udb]
    ELSE LET saved == SaveUser(udb, [user EXCEPT !.Password = Encrypt(user.Password)],
                               fault = FaultSaveUser)
         IN  IF saved.err # Nil
             THEN [user |-> ZeroSecuredUser, err |-> user_ErrStorageSave, udb |-> saved.udb]
             ELSE [user |-> [ID |-> saved.user.ID, Email |-> saved.user.Email,
                             Role |-> saved.user.Role],
                   err |-> Nil, udb |-> saved.udb]

\* jwt.GenerateToken: a token signed with the key of the server, not expired
\* for 20 minutes, that carries the id and the role
GenerateToken(userid, role) ==
    [signed |-> TRUE, expired |-> FALSE, UserID |-> userid, Role |-> role]

\* no token
NoToken == [signed |-> FALSE, expired |-> FALSE, UserID |-> 0, Role |-> ""]

\* faulty variant: the password is not compared
UserStorage_Login_NoCompare(udb, user, fault) ==
    LET got == GetUserByEmail(udb, user.Email, fault = FaultGetByEmail)
    IN  IF got.err # Nil
        THEN IF got.err = ErrUserNotFound
             THEN [token |-> NoToken, err |-> ErrNotFoundUser]
             ELSE [token |-> NoToken, err |-> user_ErrStorageGet]
        ELSE [token |-> GenerateToken(got.user.ID, got.user.Role), err |-> Nil]

\* UserStorage.Login (user.go 242-265).  GenerateToken signs with HMAC and a
\* constant key, which returns no error.
UserStorage_Login(udb, user, fault) ==
    LET got == GetUserByEmail(udb, user.Email, fault = FaultGetByEmail)
    IN  IF got.err # Nil
        THEN IF got.err = ErrUserNotFound
             THEN [token |-> NoToken, err |-> ErrNotFoundUser]
             ELSE [token |-> NoToken, err |-> user_ErrStorageGet]
        ELSE IF ~Compare(got.user.Password, user.Password)
        THEN [token |-> NoToken, err |-> ErrInvalidPasswordToLogin]
        ELSE [token |-> GenerateToken(got.user.ID, got.user.Role), err |-> Nil]

----------------------------------------------------------------------------
(* The search of users: user.go 267-353 and SqlRepository.GetPaginate /     *)
(* GetFreeDrivers                                                            *)

\* the signed integers of IntBits bits and their arithmetic, which wraps
MinInt == - (2 ^ (IntBits - 1))
MaxInt == 2 ^ (IntBits - 1) - 1
Wrap(n) == ((n - MinInt) % (2 ^ IntBits)) + MinInt

\* row id of udb as GetPaginate and GetFreeDrivers scan it: id, role and
\* email, no password
Scanned(udb, id) == [ID |-> id, Email |-> udb[id].email, Password |-> "", Role |-> udb[id].role]

\* the ids of a table in the order a SELECT without ORDER BY reads them, the
\* order of the primary key
IdsOf(udb) == [i \in 1..Len(udb) |-> i]

\* the rows a SELECT ... LIMIT skip, count reads from the ids
Limited(ids, skip, count) ==
    IF skip >= Len(ids) \/ count = 0 THEN <<>>
    ELSE SubSeq(ids, skip + 1, IF skip + count > Len(ids) THEN Len(ids) ELSE skip + count)

FaultPaginate == "paginate"
FaultCountPrepare == "count_prepare"
FaultCountScan == "count_scan"
FaultFreeDrivers == "free_drivers"

\* the skip and the count of the LIMIT clause GetPaginate writes
\* (part_007 102-105): "LIMIT %d, %d" is given limit and then offset, and
\* MySQL reads LIMIT a, b as skip a, count b; with offset 0 it is "LIMIT %d"
LimitClause(limit, offset) ==
    IF offset = 0 THEN [skip |-> 0, count |-> limit]
    ELSE [skip |-> limit, count |-> offset]

\* SqlRepository.GetPaginate.  MySQL refuses a negative number in a LIMIT
\* clause; the error of the Scan of COUNT(*) is not looked at, count stays 0.
GetPaginate(udb, limit, offset, fault) ==
    LET clause == LimitClause(limit, offset)
    IN  IF fault = FaultPaginate \/ clause.skip < 0 \/ clause.count < 0
        THEN [users |-> <<>>, count |-> 0, err |-> ErrSql]
        ELSE IF fault = FaultCountPrepare
        THEN [users |-> <<>>, count |-> 0, err |-> ErrSql]
        ELSE [users |-> [k \in DOMAIN Limited(IdsOf(udb), clause.skip, clause.count) |->
                           Scanned(udb, Limited(IdsOf(udb), clause.skip, clause.count)[k])],
              count |-> IF fault = FaultCountScan THEN 0 ELSE Len(udb),
              err |-> Nil]

\* faulty variant: the statuses are compared letter by letter
BusyUserIDs_Exact(db) ==
    {db[t].user_id.Int64 :
       t \in {t \in DOMAIN db : /\ db[t].user_id.Valid
                                /\ \/ db[t].status = "Pending"
                                   \/ db[t].status = "in_process"}}

\* the user ids of the sub-query of GetFreeDrivers: select user_id from
\* travels WHERE user_id IS NOT NULL AND (status = 'Pending' OR status =
\* 'in_process')
BusyUserIDs(db) ==
    {db[t].user_id.Int64 :
       t \in {t \in DOMAIN db : /\ db[t].user_id.Valid
                                /\ \/ SqlEq(db[t].status, "Pending")
                                   \/ SqlEq(db[t].status, "in_process")}}

\* SqlRepository.GetFreeDrivers: SELECT id, role, email FROM users WHERE role
\* = 'driver' AND id NOT IN (the sub-query)
GetFreeDrivers(udb, db, fault) ==
    IF fault = FaultFreeDrivers THEN [users |-> <<>>, err |-> ErrSql]
    ELSE LET free == SelectSeq(IdsOf(udb),
                               LAMBDA id : /\ SqlEq(udb[id].role, "driver")
                                           /\ id \notin BusyUserIDs(db))
         IN  [users |-> [k \in DOMAIN free |-> Scanned(udb, free[k])], err |-> Nil]

\* user.go 275-279
StatusSearchBusy == "busy"
StatusSearchFree == "free"
StatusSearchNone == "none"

\* the options of a Search: for the status, the limit and the offset, the
\* set of the value given by WithStatus, WithLimit, WithOffset, empty when
\* the option is not given
SearchOptions(status, limit, offset) == [status |-> status, limit |-> limit, offset |-> offset]

\* the value an option gives, or the default
OptionOr(given, default) == IF given = {} THEN default ELSE CHOOSE v \in given : TRUE

\* the default limit of a Search (user.go 312)
DefaultLimit == 20

\* the default offset of a Search (user.go 311)
DefaultOffset == 0

\* Metadata{}
ZeroMetadata == [Total |-> 0, Pending |-> 0]

\* the SecuredUser of each User
Secured(list) ==
    [k \in DOMAIN list |-> [ID |-> list[k].ID, Email |-> list[k].Email, Role |-> list[k].Role]]

\* the error Search returns for an error of the repository
SearchError(err) == IF err = ErrUserNotFound THEN ErrNotFoundUser ELSE user_ErrStorageGet

\* UserStorage.Search (user.go 307-353)
UserStorage_Search(udb, db, opt, fault) ==
    LET status == OptionOr(opt.status, StatusSearchNone)
        offset == OptionOr(opt.offset, DefaultOffset)
        limit == OptionOr(opt.limit, DefaultLimit)
    IN  IF status = StatusSearchNone
        THEN LET got == GetPaginate(udb, limit, offset, fault)
                 pending == Wrap(Wrap(got.count - limit) - offset)
             IN  IF got.err # Nil
                 THEN [users |-> <<>>, metadata |-> ZeroMetadata, err |-> SearchError(got.err)]
                 ELSE [users |-> Secured(got.users),
                       metadata |-> [Total |-> got.count,
                                     Pending |-> IF pending < 0 THEN 0 ELSE pending],
                       err |-> Nil]
        ELSE LET got == GetFreeDrivers(udb, db, fault)
             IN  IF got.err # Nil
                 THEN [users |-> <<>>, metadata |-> ZeroMetadata, err |-> SearchError(got.err)]
                 ELSE [users |-> Secured(got.users),
                       metadata |-> [Total |-> Len(got.users), Pending |-> 0],
                       err |-> Nil]

----------------------------------------------------------------------------
(* The handlers run on a request that passed the middleware.  http records  *)
(* the request being handled and its answer, until Reply.                    *)

\* the emails of the requests; the first is the email of the first admin
EmailNames ==
    <<"nico.carolo@hotmail.com", "driver2@hotmail.com", "driver3@hotmail.com",
      "driver4@hotmail.com">>

Emails == {EmailNames[i] : i \in 1..MaxUser}

\* the roles a request body can carry: the two of the service and another
Roles == {RoleAdmin, RoleDriver, "boss"}

\* the contexts the middleware hands to a handler: the claims of the token of
\* a user of the table (Login signs the id and the role of a row, and rows are
\* neither deleted nor changed), or none when no middleware stored them
ContextsOf(udb) ==
    {NoContext}
    \cup {[ok |-> TRUE, claims |-> [UserID |-> u, Role |-> udb[u].role]] : u \in 1..Len(udb)}

\* the requests of the handlers of the travels: the id of the url does not
\* parse, the body does not bind, or both do
BadID == "bad_id"
BadBody == "bad_body"
WellFormed == "well_formed"
Shapes == {BadID, BadBody, WellFormed}

Request(shape, id, travel) ==
    [idOk |-> shape # BadID, bodyOk |-> shape # BadBody, id |-> id, travel |-> travel]

\* the answer of the request handled is written; the next one is awaited
Reply ==
    /\ http # NoRequest
    /\ http' = NoRequest
    /\ UNCHANGED <<point, travels, nextID, last, calls, users>>

\* POST of a travel
HandleCreateTravel ==
    /\ http = NoRequest
    /\ nextID <= MaxTravels
    /\ \E shape \in {BadBody, WellFormed}, status \in Statuses, user \in UserIDs :
         LET req == Request(shape, 0, TravelOf(0, status, BaseRoute, user))
         IN  \E a \in {TravelHandler_Create(travels, nextID, req, FaultNone)} :
             /\ travels' = a.db
             /\ nextID' = IF a.status = StatusCreated THEN nextID + 1 ELSE nextID
             /\ http' = [handler |-> "TravelHandler.Create", req |-> req,
                         ctx |-> NoContext, fault |-> FaultNone,
                         stored |-> ZeroTravel, status |-> a.status, code |-> a.code,
                         travel |-> a.travel, check |-> a.check, called |-> a.called]
    /\ UNCHANGED <<point, last, calls, users>>

\* PUT of a travel
HandleEditTravel ==
    /\ http = NoRequest
    /\ \E shape \in Shapes, id \in TravelIDs, status \in Statuses, user \in UserIDs,
          ctx \in ContextsOf(users), fault \in {FaultNone, FaultGetUser} :
         LET req == Request(shape, id, TravelOf(0, status, BaseRoute, user))
         IN  \E a \in {TravelHandler_Edit(travels, users, req, ctx, fault)} :
             /\ travels' = a.db
             /\ http' = [handler |-> "TravelHandler.Edit", req |-> req,
                         ctx |-> ctx, fault |-> fault,
                         stored |-> StoredTravel(travels, id),
                         status |-> a.status, code |-> a.code,
                         travel |-> a.travel, check |-> a.check, called |-> a.called]
    /\ UNCHANGED <<point, nextID, last, calls, users>>

\* mapUserError: the status code of an error of the user service
mapUserError(err) ==
    CASE err \in {ErrInvalidPasswordToSave, ErrInvalidRole} -> StatusBadRequest
      [] err \in {user_ErrStorageSave, user_ErrStorageGet} -> StatusInternalServerError
      [] err = ErrNotFoundUser -> StatusNotFound
      [] OTHER -> StatusInternalServerError

\* UserHandler.Create.  The body binds when it is JSON and holds an email, a
\* role and a password (binding:"required" refuses the empty string).
UserHandler_Create(udb, bodyOk, user, fault) ==
    IF ~bodyOk \/ user.Email = "" \/ user.Role = "" \/ user.Password = ""
    THEN [status |-> StatusUnprocessableEntity, code |-> "invalid_request",
          user |-> ZeroSecuredUser, udb |-> udb]
    ELSE CHOOSE a \in {IF r.err # Nil
                       THEN [status |-> mapUserError(r.err), code |-> r.err.Code,
                             user |-> ZeroSecuredUser, udb |-> r.udb]
                       ELSE [status |-> StatusCreated, code |-> "",
                             user |-> r.user, udb |-> r.udb] :
                         r \in {UserStorage_Save(udb, user, fault)}} : TRUE

\* POST of a user.  The email of a new user is the one of its row in
\* EmailNames, or the email of the first admin, which the table refuses.
HandleCreateUser ==
    /\ http = NoRequest
    /\ ~UserTableFull(users)
    /\ \E bodyOk \in BOOLEAN, email \in {EmailNames[1], EmailNames[Len(users) + 1]},
          role \in Roles :
         LET user == [ID |-> 0, Email |-> email, Password |-> "hola1234", Role |-> role]
         IN  \E a \in {UserHandler_Create(users, bodyOk, user, FaultNone)} :
             /\ users' = a.udb
             /\ http' = [handler |-> "UserHandler.Create", bodyOk |-> bodyOk,
                         user |-> user, fault |-> FaultNone,
                         status |-> a.status, code |-> a.code, created |-> a.user]
    /\ UNCHANGED <<point, travels, nextID, last, calls>>

\* a parameter of the query string that holds a number: not given, given
\* and not a number, or given and the number n
NotGiven == [given |-> FALSE, ok |-> FALSE, n |-> 0]
NotANumber == [given |-> TRUE, ok |-> FALSE, n |-> 0]
Number(n) == [given |-> TRUE, ok |-> TRUE, n |-> n]

\* strconv.ParseInt(text, 10, 64) of a parameter that is given (users.go 83,
\* 96): it fails on a text that is no number and on a number that does not
\* fit 64 bits
ParseInt(param) ==
    IF param.ok /\ param.n \in MinInt..MaxInt
    THEN [n |-> param.n, err |-> FALSE]
    ELSE [n |-> 0, err |-> TRUE]

\* what UserHandler.GetDrivers answers, and whether it called Search
Found(status, code, r, searched) ==
    [status |-> status, code |-> code, total |-> r.metadata.Total,
     pending |-> r.metadata.Pending, result |-> r.users, searched |-> searched]

NothingFound == [users |-> <<>>, metadata |-> ZeroMetadata, err |-> Nil]

\* faulty variant: the search of the busy drivers is let through
UserHandler_GetDrivers_BusyAllowed(udb, db, status, limit, offset, fault) ==
    IF status # "" /\ status # StatusSearchBusy /\ status # StatusSearchFree
    THEN Found(StatusBadRequest, "invalid_request", NothingFound, FALSE)
    ELSE IF status # "" /\ (limit.given \/ offset.given)
    THEN Found(StatusBadRequest, "invalid_request", NothingFound, FALSE)
    ELSE IF limit.given /\ (ParseInt(limit).err \/ ParseInt(limit).n = 0)
    THEN Found(StatusBadRequest, "invalid_request", NothingFound, FALSE)
    ELSE IF offset.given /\ ParseInt(offset).err
    THEN Found(StatusBadRequest, "invalid_request", NothingFound, FALSE)
    ELSE LET opt == SearchOptions(IF status # "" THEN {status} ELSE {},
                                  IF limit.given THEN {ParseInt(limit).n} ELSE {},
                                  IF offset.given THEN {ParseInt(offset).n} ELSE {})
         IN  CHOOSE a \in {IF r.err # Nil
                           THEN Found(mapUserError(r.err), r.err.Code, NothingFound, TRUE)
                           ELSE Found(StatusOK, "", r, TRUE) :
                             r \in {UserStorage_Search(udb, db, opt, fault)}} : TRUE

\* UserHandler.GetDrivers (users.go 50-117); status is the text of the
\* parameter, "" when it is not given
UserHandler_GetDrivers(udb, db, status, limit, offset, fault) ==
    IF status # "" /\ status # StatusSearchFree
    THEN Found(StatusBadRequest, "invalid_request", NothingFound, FALSE)
    ELSE IF status # "" /\ (limit.given \/ offset.given)
    THEN Found(StatusBadRequest, "invalid_request", NothingFound, FALSE)
    ELSE IF limit.given /\ (ParseInt(limit).err \/ ParseInt(limit).n = 0)
    THEN Found(StatusBadRequest, "invalid_request", NothingFound, FALSE)
    ELSE IF offset.given /\ ParseInt(offset).err
    THEN Found(StatusBadRequest, "invalid_request", NothingFound, FALSE)
    ELSE LET opt == SearchOptions(IF status # "" THEN {status} ELSE {},
                                  IF limit.given THEN {ParseInt(limit).n} ELSE {},
                                  IF offset.given THEN {ParseInt(offset).n} ELSE {})
         IN  CHOOSE a \in {IF r.err # Nil
                           THEN Found(mapUserError(r.err), r.err.Code, NothingFound, TRUE)
                           ELSE Found(StatusOK, "", r, TRUE) :
                             r \in {UserStorage_Search(udb, db, opt, fault)}} : TRUE

\* GET of the drivers
HandleGetDrivers ==
    /\ http = NoRequest
    /\ \E status \in {"", StatusSearchFree, StatusSearchBusy},
          limit \in {NotGiven, NotANumber, Number(0), Number(1), Number(-1), Number(MaxInt + 1)},
          offset \in {NotGiven, NotANumber, Number(1), Number(MaxInt + 1)},
          fault \in {FaultNone, FaultFreeDrivers} :
         \E a \in {UserHandler_GetDrivers(users, travels, status, limit, offset, fault)} :
             http' = [handler |-> "UserHandler.GetDrivers", query |-> status,
                      limit |-> limit, offset |-> offset, fault |-> fault,
                      status |-> a.status, code |-> a.code, total |-> a.total,
                      pending |-> a.pending, result |-> a.result,
                      searched |-> a.searched]
    /\ UNCHANGED <<point, travels, nextID, last, calls, users>>

NextHandlers ==
    \/ HandleCreateTravel
    \/ HandleEditTravel
    \/ HandleCreateUser
    \/ HandleGetDrivers
    \/ Reply

SpecHandlers == Init /\ [][NextHandlers]_vars

----------------------------------------------------------------------------
(* The calls of the user service.  http records the call being made and     *)
(* what it returned, until Reply.                                            *)

\* the passwords of the requests; the first is the one of the first admin
Passwords == {"hola1234", "a_pass"}

\* the limits and the offsets given to a search: small ones, the largest
\* integer, a negative one
Limits == {-1, 1, 2, MaxInt}
Offsets == {-1, 0, 1, 2, MaxInt}

\* the sets of at most one value of a set
Optional(values) == {{}} \cup {{v} : v \in values}

\* UserStorage.Save
CallUserSave ==
    /\ http = NoRequest
    /\ ~UserTableFull(users)
    /\ \E email \in Emails, password \in Passwords, role \in Roles,
          fault \in {FaultNone, FaultEncrypt, FaultSaveUser} :
         LET user == [ID |-> 0, Email |-> email, Password |-> password, Role |-> role]
         IN  \E r \in {UserStorage_Save(users, user, fault)} :
             /\ users' = r.udb
             /\ http' = [handler |-> "UserStorage.Save", user |-> user, fault |-> fault,
                         result |-> r.user, err |-> r.err]
    /\ UNCHANGED <<point, travels, nextID, last, calls>>

\* UserStorage.Get
CallUserGet ==
    /\ http = NoRequest
    /\ \E id \in UserIDs, fault \in {FaultNone, FaultGetUser} :
         \E r \in {UserStorage_Get(users, id, fault)} :
             http' = [handler |-> "UserStorage.Get", id |-> id, fault |-> fault,
                      result |-> r.user, err |-> r.err]
    /\ UNCHANGED <<point, travels, nextID, last, calls, users>>

\* UserStorage.Login
CallLogin ==
    /\ http = NoRequest
    /\ \E email \in Emails \cup {"NICO.CAROLO@HOTMAIL.COM"}, password \in Passwords,
          fault \in {FaultNone, FaultGetByEmail} :
         LET user == [ID |-> 0, Email |-> email, Password |-> password, Role |-> ""]
         IN  \E r \in {UserStorage_Login(users, user, fault)} :
             http' = [handler |-> "UserStorage.Login", user |-> user, fault |-> fault,
                      token |-> r.token, err |-> r.err]
    /\ UNCHANGED <<point, travels, nextID, last, calls, users>>

\* UserStorage.Search
CallSearch ==
    /\ http = NoRequest
    /\ \E status \in Optional({StatusSearchFree}), limit \in Optional(Limits),
          offset \in Optional(Offsets),
          fault \in {FaultNone, FaultPaginate, FaultCountPrepare, FaultCountScan,
                     FaultFreeDrivers} :
         LET opt == SearchOptions(status, limit, offset)
         IN  \E r \in {UserStorage_Search(users, travels, opt, fault)} :
             http' = [handler |-> "UserStorage.Search", opt |-> opt, fault |-> fault,
                      result |-> r.users, metadata |-> r.metadata, err |-> r.err]
    /\ UNCHANGED <<point, travels, nextID, last, calls, users>>

\* the calls of the user service, and the creation of travels, which the
\* search of the free drivers reads
NextUsers ==
    CallUserSave \/ CallUserGet \/ CallLogin \/ CallSearch \/ HandleCreateTravel \/ Reply

SpecUsers == Init /\ [][NextUsers]_vars

----------------------------------------------------------------------------
(* cmd/api/handlers/auth.go and cmd/api/main.go: the middleware, the rules  *)
(* and the routes                                                            *)

\* the errors of the package jwt (part_010 11-16)
ErrInvalidToken == [Code |-> "jwt", Detail |-> "the received token is invalid"]
ErrTokenExpired == [Code |-> "jwt", Detail |-> "the received token is expired"]
ErrInvalidClaims == [Code |-> "jwt", Detail |-> "cannot parse claims"]

\* jwt.ValidateToken: jwt.Parse refuses a token that the key of the server
\* did not sign, and then one that is expired
ValidateToken(token) ==
    IF ~token.signed THEN ErrInvalidToken
    ELSE IF token.expired THEN ErrTokenExpired
    ELSE Nil

\* jwt.GetClaims of a token that ValidateToken returned: its claims are a
\* jwt.MapClaims and it is valid, so the claims are returned
GetClaims(token) == [claims |-> [UserID |-> token.UserID, Role |-> token.Role], err |-> Nil]

\* the schema AuthenticateRequest expects before the token (auth.go 81)
BearerSchema == <<"B", "e", "a", "r", "e", "r", " ">>

\* an Authorization header: the characters before the token, and the token
\* if there is one
Header(text, token) == [text |-> text, token |-> token]

\* the header is the empty string
NoHeader == Header(<<>>, {})

\* what authHeader[len(BearerSchema):] gives (auth.go 90).  A token is longer
\* than the schema.  The slice panics on a header shorter than the schema;
\* it is the token when as many characters as the schema has come before the
\* token, whatever they are; else it is a text that is no token of the server.
tokenString(header) ==
    IF header.token = {}
    THEN IF Len(header.text) < Len(BearerSchema)
         THEN [panic |-> TRUE, token |-> NoToken]
         ELSE [panic |-> FALSE, token |-> NoToken]
    ELSE IF Len(header.text) = Len(BearerSchema)
         THEN [panic |-> FALSE, token |-> CHOOSE t \in header.token : TRUE]
         ELSE [panic |-> FALSE, token |-> NoToken]

\* what a middleware leaves: whether it aborted the chain, the answer it wrote
\* if so, and the context
Passed(ctx) == [aborted |-> FALSE, status |-> 0, code |-> "", ctx |-> ctx]
Aborted(status, code) == [aborted |-> TRUE, status |-> status, code |-> code, ctx |-> NoContext]

\* the answer of panicRecover (main.go 159-164) to a panic in the chain
Recovered == Aborted(StatusInternalServerError, "unexpected_error")

\* AuthenticateRequest (auth.go 79-121)
AuthenticateRequest(header) ==
    IF header = NoHeader
    THEN Aborted(StatusUnauthorized, "authorization_token_missing")
    ELSE IF tokenString(header).panic THEN Recovered
    ELSE LET token == tokenString(header).token
             err == ValidateToken(token)
         IN  IF err # Nil
             THEN IF err = ErrTokenExpired
                  THEN Aborted(StatusUnauthorized, "expired_token")
                  ELSE Aborted(StatusUnauthorized, "invalid_token")
             ELSE IF GetClaims(token).err # Nil
             THEN Aborted(StatusUnauthorized, "invalid_token_data")
             ELSE Passed([ok |-> TRUE, claims |-> GetClaims(token).claims])

\* newRule (auth.go 130-136)
newRule(url, method, role) == [url |-> url, method |-> method, role |-> role]

\* Rules.AddRule: the roles of the method and the url gain the role
AddRule(r, rule) ==
    LET key == <<rule.method, rule.url>>
    IN  [k \in DOMAIN r \cup {key} |->
           IF k = key THEN (IF key \in DOMAIN r THEN Append(r[key], rule.role)
                            ELSE <<rule.role>>)
           ELSE r[k]]

\* the rules of NewRoleControl in the order they are added (auth.go 148-156)
RuleList ==
    << newRule("/v1/user/", "POST", "admin"),
       newRule("/v1/user/:id", "GET", "admin"),
       newRule("/v1/user/drivers", "GET", "admin"),
       newRule("/v1/travel/", "POST", "admin"),
       newRule("/v1/travel/:id", "GET", "admin"),
       newRule("/v1/travel/:id", "GET", "driver"),
       newRule("/v1/travel/:id", "PUT", "driver"),
       newRule("/v1/travel/:id", "PUT", "admin") >>

RECURSIVE AddRules(_, _, _)
AddRules(r, list, k) ==
    IF k > Len(list) THEN r ELSE AddRules(AddRule(r, list[k]), list, k + 1)

\* NewRoleControl (auth.go 145-159): the roles accepted for each method and url
NewRoleControl == AddRules(<<>>, RuleList, 1)

\* faulty variant: every role is let through
CanAccess_Always(r, method, path, role) == TRUE

\* Rules.CanAccess (auth.go 172-189)
CanAccess(r, method, path, role) ==
    /\ <<method, path>> \in DOMAIN r
    /\ \E k \in 1..Len(r[<<method, path>>]) : r[<<method, path>>][k] = role

\* AuthorizeRequest (auth.go 193-220); path is ctx.FullPath(), the path the
\* route was registered with
AuthorizeRequest(rules, ctx, method, path) ==
    IF ~ctx.ok THEN Aborted(StatusUnauthorized, "authorize_failure")
    ELSE IF ~CanAccess(rules, method, path, ctx.claims.Role)
    THEN Aborted(StatusUnauthorized, "authorize_failure")
    ELSE Passed(ctx)

\* a route: the method, the path of the group and of the route, the handlers
route(method, path, chain) == [method |-> method, path |-> path, chain |-> chain]

\* the chain of a protected route
Protected(handler) == <<"AuthenticateRequest", "AuthorizeRequest", handler>>

\* the routes of setApi (main.go 140-150)
setApi ==
    { route("GET", "/v1/users/:id", Protected("UserHandler.Get")),
      route("POST", "/v1/users", Protected("UserHandler.Create")),
      route("GET", "/v1/users/drivers", Protected("UserHandler.GetDrivers")),
      route("GET", "/v1/travels/:id", Protected("TravelHandler.Get")),
      route("PUT", "/v1/travels/:id", Protected("TravelHandler.Edit")),
      route("POST", "/v1/travels", Protected("TravelHandler.Create")),
      route("POST", "/v1/login", <<"AuthHandler.Login">>) }

\* the routes of the former main (main.go 44-55)
main ==
    { route("GET", "/v1/user/:id", Protected("UserHandler.Get")),
      route("POST", "/v1/user/", Protected("UserHandler.Create")),
      route("GET", "/v1/user/drivers", Protected("UserHandler.GetDrivers")),
      route("GET", "/v1/travel/:id", Protected("TravelHandler.Get")),
      route("PUT", "/v1/travel/:id", Protected("TravelHandler.Edit")),
      route("POST", "/v1/travel/", Protected("TravelHandler.Create")),
      route("POST", "/v1/login/", <<"AuthHandler.Login">>) }

\* the two registrations of the routes that main.go holds
Routers == {"setApi", "main"}

RoutesOf(router) == IF router = "setApi" THEN setApi ELSE main

\* UserHandler.Get (users.go 28-46)
UserHandler_Get(udb, idOk, id, fault) ==
    IF ~idOk
    THEN [status |-> StatusBadRequest, code |-> "invalid_request", user |-> ZeroSecuredUser]
    ELSE CHOOSE a \in {IF r.err # Nil
                       THEN [status |-> mapUserError(r.err), code |-> r.err.Code,
                             user |-> ZeroSecuredUser]
                       ELSE [status |-> StatusOK, code |-> "", user |-> r.user] :
                         r \in {UserStorage_Get(udb, id, fault)}} : TRUE

\* mapAuthError (auth.go 54-75)
mapAuthError(err) ==
    CASE err = ErrNotFoundUser -> StatusNotFound
      [] err = ErrInvalidPasswordToLogin -> StatusBadRequest
      [] err = user_ErrStorageGet -> StatusInternalServerError
      [] OTHER -> StatusInternalServerError

\* AuthHandler.Login (auth.go 24-53); the body binds when it is JSON and
\* holds an email and a password
AuthHandler_Login(udb, bodyOk, user, fault) ==
    IF ~bodyOk \/ user.Email = "" \/ user.Password = ""
    THEN [status |-> StatusUnprocessableEntity, code |-> "invalid_request", token |-> NoToken]
    ELSE CHOOSE a \in {IF r.err # Nil
                       THEN [status |-> mapAuthError(r.err), code |-> r.err.Code,
                             token |-> NoToken]
                       ELSE [status |-> StatusOK, code |-> "", token |-> r.token] :
                         r \in {UserStorage_Login(udb, user, fault)}} : TRUE

\* the handlers of a chain before its last one, run from the k-th in their
\* order until one aborts: what they leave, and the ones that ran
RECURSIVE Middlewares(_, _, _, _, _, _)
Middlewares(rt, k, rules, header, ctx, ran) ==
    IF k >= Len(rt.chain)
    THEN [aborted |-> FALSE, status |-> 0, code |-> "", ctx |-> ctx, ran |-> ran]
    ELSE LET m == IF rt.chain[k] = "AuthenticateRequest"
                  THEN AuthenticateRequest(header)
                  ELSE AuthorizeRequest(rules, ctx, rt.method, rt.path)
         IN  IF m.aborted
             THEN [aborted |-> TRUE, status |-> m.status, code |-> m.code,
                   ctx |-> NoContext, ran |-> Append(ran, rt.chain[k])]
             ELSE Middlewares(rt, k + 1, rules, header, m.ctx, Append(ran, rt.chain[k]))

\* the tokens a request can carry: the one Login gives a user of the table,
\* the same once expired, one signed with another key, and that one expired
Tokens(udb) ==
    {[GenerateToken(u, udb[u].role) EXCEPT !.expired = e] : u \in 1..Len(udb), e \in BOOLEAN}
    \cup {[GenerateToken(1, RoleAdmin) EXCEPT !.signed = FALSE, !.expired = e] : e \in BOOLEAN}

\* the Authorization headers of the requests: none, a text shorter than the
\* schema, the schema alone, the schema and a token, a token alone
Headers(udb) ==
    {NoHeader, Header(<<"a", "b", "c">>, {}), Header(BearerSchema, {})}
    \cup {Header(BearerSchema, {t}) : t \in Tokens(udb)}
    \cup {Header(<<>>, {GenerateToken(1, RoleAdmin)})}

\* the request served and its answer: the handlers of the chain that ran, the
\* claims the middleware stored, the status code and the code of the body
Served(router, rt, header, ran, ctx, status, code) ==
    [handler |-> "gin", router |-> router, method |-> rt.method, path |-> rt.path,
     chain |-> rt.chain, header |-> header, ran |-> ran, ctx |-> ctx,
     status |-> status, code |-> code]

\* the last handler of the chain of rt, the one of the resource, runs on the
\* request that the handlers before it let through and left ctx for
Resource(router, rt, header, pre) ==
    LET name == rt.chain[Len(rt.chain)]
        ran == Append(pre.ran, name)
    IN  \/ /\ name = "UserHandler.Get"
           /\ \E idOk \in BOOLEAN, id \in UserIDs :
                \E a \in {UserHandler_Get(users, idOk, id, FaultNone)} :
                    http' = Served(router, rt, header, ran, pre.ctx, a.status, a.code)
           /\ UNCHANGED <<travels, nextID, users>>
        \/ /\ name = "UserHandler.Create"
           /\ \E email \in IF UserTableFull(users) THEN {EmailNames[1]}
                           ELSE {EmailNames[1], EmailNames[Len(users) + 1]},
                 role \in Roles :
                LET user == [ID |-> 0, Email |-> email, Password |-> "hola1234", Role |-> role]
                IN  \E a \in {UserHandler_Create(users, TRUE, user, FaultNone)} :
                        /\ users' = a.udb
                        /\ http' = Served(router, rt, header, ran, pre.ctx, a.status, a.code)
           /\ UNCHANGED <<travels, nextID>>
        \/ /\ name = "UserHandler.GetDrivers"
           /\ \E status \in {"", StatusSearchFree} :
                \E a \in {UserHandler_GetDrivers(users, travels, status, NotGiven, NotGiven,
                                                 FaultNone)} :
                    http' = Served(router, rt, header, ran, pre.ctx, a.status, a.code)
           /\ UNCHANGED <<travels, nextID, users>>
        \/ /\ name = "TravelHandler.Get"
           /\ \E id \in TravelIDs :
                \E a \in {TravelHandler_Get(travels, Request(WellFormed, id, ZeroTravel),
                                            FaultNone)} :
                    http' = Served(router, rt, header, ran, pre.ctx, a.status, a.code)
           /\ UNCHANGED <<travels, nextID, users>>
        \/ /\ name = "TravelHandler.Edit"
           /\ \E id \in TravelIDs, status \in {StatusPending, StatusInProcess, StatusReady},
                 user \in UserIDs :
                LET req == Request(WellFormed, id, TravelOf(0, status, BaseRoute, user))
                IN  \E a \in {TravelHandler_Edit(travels, users, req, pre.ctx, FaultNone)} :
                        /\ travels' = a.db
                        /\ http' = Served(router, rt, header, ran, pre.ctx, a.status, a.code)
           /\ UNCHANGED <<nextID, users>>
        \/ /\ name = "TravelHandler.Create"
           /\ \E shape \in IF nextID <= MaxTravels THEN {BadBody, WellFormed} ELSE {BadBody},
                 user \in UserIDs :
                LET req == Request(shape, 0, TravelOf(0, StatusPending, BaseRoute, user))
                IN  \E a \in {TravelHandler_Create(travels, nextID, req, FaultNone)} :
                        /\ travels' = a.db
                        /\ nextID' = IF a.status = StatusCreated THEN nextID + 1 ELSE nextID
                        /\ http' = Served(router, rt, header, ran, pre.ctx, a.status, a.code)
           /\ UNCHANGED users
        \/ /\ name = "AuthHandler.Login"
           /\ \E email \in Emails, password \in Passwords :
                LET user == [ID |-> 0, Email |-> email, Password |-> password, Role |-> ""]
                IN  \E a \in {AuthHandler_Login(users, TRUE, user, FaultNone)} :
                        http' = Served(router, rt, header, ran, pre.ctx, a.status, a.code)
           /\ UNCHANGED <<travels, nextID, users>>

\* a request of a route is served: the handlers of its chain run in their
\* order until one aborts.  A route without middleware is asked without header.
Serve ==
    /\ http = NoRequest
    /\ \E router \in Routers :
         \E rt \in RoutesOf(router) :
           \E header \in IF Len(rt.chain) = 1 THEN {NoHeader} ELSE Headers(users) :
             \E pre \in {Middlewares(rt, 1, NewRoleControl, header, NoContext, <<>>)} :
               IF pre.aborted
               THEN /\ http' = Served(router, rt, header, pre.ran, pre.ctx,
                                      pre.status, pre.code)
                    /\ UNCHANGED <<travels, nextID, users>>
               ELSE Resource(router, rt, header, pre)
    /\ UNCHANGED <<point, last, calls>>

NextApi == Serve \/ Reply

SpecApi == Init /\ [][NextApi]_vars

----------------------------------------------------------------------------
(* The properties of the handlers of the travels                            *)

\* the request handled last is a well-formed one of this handler
Handled(handler) ==
    /\ http.handler = handler
    /\ http.req.idOk
    /\ http.req.bodyOk

\* user id is a row of the table `users`
UserExists(id) == id \in 1..Len(users)

(* C21.  An update whose proposed assigned user id is not 0 is applied only *)
(* if the look-up of that user found it; when the user does not exist the   *)
(* request is answered invalid_travel_user before the travel service is     *)
(* called, so nothing is validated or written; no accepted update stores an *)
(* assigned user whose existence was not confirmed.                         *)
C21_UpdateChecksUser ==
    Handled("TravelHandler.Edit") /\ http.req.travel.UserID # 0 =>
        /\ (~UserExists(http.req.travel.UserID)
              => /\ http.status = StatusBadRequest
                 /\ http.code = "invalid_travel_user"
                 /\ ~http.called
                 /\ StoredTravel(travels, http.req.id) = http.stored)
        /\ (http.status = StatusOK
              => /\ http.check = CheckFound
                 /\ UserExists(StoredTravel(travels, http.req.id).UserID))

(* C22.  A create whose travel carries an assigned user id that is not 0    *)
(* looks that user up, and no travel is created with an assigned user id    *)
(* that is not a user of the table.                                         *)
C22_CreateChecksUser ==
    Handled("TravelHandler.Create") /\ http.req.travel.UserID # 0 =>
        /\ http.check # CheckSkipped
        /\ (http.status = StatusCreated => UserExists(http.travel.UserID))

\* the drivers of the table `users` that no travel in status pending or
\* in_process is assigned to
FreeDrivers ==
    {u \in 1..Len(users) :
       /\ users[u].role = RoleDriver
       /\ ~\E t \in DOMAIN travels :
             /\ travels[t].user_id = ValidInt64(u)
             /\ travels[t].status \in {StatusPending, StatusInProcess}}

(* C30.  After any sequence of creations and updates of travels, the search *)
(* of the free drivers returns exactly the users of role driver that have   *)
(* no assigned travel in status pending or in_process: a driver whose       *)
(* travels are all ready, or who has none, is among them.                   *)
C30_FreeDrivers ==
    /\ http.handler = "UserHandler.GetDrivers"
    /\ http.query = StatusSearchFree
    /\ http.status = StatusOK
    => /\ {http.result[k].ID : k \in DOMAIN http.result} = FreeDrivers
       /\ Len(http.result) = Cardinality(FreeDrivers)
       /\ \A k \in DOMAIN http.result : http.result[k].Role = RoleDriver

\* the only driver is assigned a pending travel and the search returns no one
C30_Witness ==
    /\ http.handler = "UserHandler.GetDrivers"
    /\ http.query = StatusSearchFree
    /\ http.status = StatusOK
    /\ \E u \in 1..Len(users), t \in DOMAIN travels :
         /\ users[u].role = RoleDriver
         /\ travels[t].user_id = ValidInt64(u)
         /\ travels[t].status = StatusPending
    /\ http.result = <<>>

\* the request for the drivers was answered 400 invalid_request and Search
\* was not called
SearchRejected ==
    /\ http.status = StatusBadRequest
    /\ http.code = "invalid_request"
    /\ ~http.searched

\* the parameter is given and holds an integer of 64 bits
IsInteger(param) == param.given /\ param.ok /\ param.n \in MinInt..MaxInt

\* C37: the search of the drivers answers 400 invalid_request without calling
\* Search when the status is given and is not "free" ("busy" included), when
\* a status comes with a limit or an offset, when the limit is given and is 0
\* or no integer, when the offset is given and is no integer; every other
\* request reaches Search
C37_SearchValidation ==
    http.handler = "UserHandler.GetDrivers" =>
        IF \/ http.query # "" /\ http.query # "free"
           \/ http.query # "" /\ (http.limit.given \/ http.offset.given)
           \/ http.limit.given /\ (~IsInteger(http.limit) \/ http.limit.n = 0)
           \/ http.offset.given /\ ~IsInteger(http.offset)
        THEN SearchRejected
        ELSE http.searched

\* the search of the busy drivers, without limit and offset, was rejected
C37_Witness ==
    /\ http.handler = "UserHandler.GetDrivers"
    /\ http.query = "busy"
    /\ ~http.limit.given
    /\ ~http.offset.given
    /\ SearchRejected

\* a request with a negative limit reached Search
NegativeLimitSearched ==
    /\ http.handler = "UserHandler.GetDrivers"
    /\ http.limit.given /\ http.limit.n < 0
    /\ http.searched

----------------------------------------------------------------------------
(* The properties of the routes                                             *)

\* the request served is one of a route with the two handlers of the
\* middleware before the handler of the resource
OnProtectedRoute == http.handler = "gin" /\ Len(http.chain) = 3

\* the handler of the resource of the route of the request
ResourceOf == http.chain[Len(http.chain)]

\* the handler of the resource ran
ResourceRan == \E k \in 1..Len(http.ran) : http.ran[k] = ResourceOf

\* the request carries, after the schema, a token that Login gave and that is
\* not expired: the token
BearerTokens ==
    IF http.header.text = BearerSchema
    THEN {t \in http.header.token : t.signed /\ ~t.expired}
    ELSE {}

\* the request is authenticated with a token of this role
AuthenticatedAs(role) == \E t \in BearerTokens : t.Role = role

\* AuthorizeRequest refused the request
RefusedByAuthorize ==
    /\ http.status = StatusUnauthorized
    /\ http.code = "authorize_failure"
    /\ http.ran = <<"AuthenticateRequest", "AuthorizeRequest">>

(* C23.  Only an admin can create users, get users, search drivers and      *)
(* create travels: a request to one of these resources that is              *)
(* authenticated with the token of a driver is refused with 401             *)
(* authorize_failure by AuthorizeRequest, and the handler of the resource   *)
(* does not run.                                                            *)
C23_DriverRefused ==
    /\ OnProtectedRoute
    /\ ResourceOf \in {"UserHandler.Create", "UserHandler.Get", "UserHandler.GetDrivers",
                       "TravelHandler.Create"}
    /\ AuthenticatedAs(RoleDriver)
    => RefusedByAuthorize /\ ~ResourceRan

\* a driver asks setApi to create a user and is refused
C23_Witness ==
    /\ OnProtectedRoute
    /\ http.router = "setApi"
    /\ ResourceOf = "UserHandler.Create"
    /\ AuthenticatedAs(RoleDriver)
    /\ RefusedByAuthorize

(* C24.  On every protected route registered under /v1 (get user, create    *)
(* user, search drivers, get travel, update travel, create travel) a        *)
(* request authenticated as admin passes AuthorizeRequest, and so does one  *)
(* authenticated as driver on get travel and update travel: the method and  *)
(* the registered path of the route match a rule of NewRoleControl for the  *)
(* role.                                                                    *)
C24_RoutesMatchRules ==
    /\ OnProtectedRoute
    /\ \/ AuthenticatedAs(RoleAdmin)
       \/ AuthenticatedAs(RoleDriver) /\ ResourceOf \in {"TravelHandler.Get", "TravelHandler.Edit"}
    => /\ ~RefusedByAuthorize
       /\ ResourceRan
       /\ \E t \in BearerTokens : CanAccess(NewRoleControl, http.method, http.path, t.Role)

\* AuthenticateRequest answered the request with this code, and no handler
\* after it ran
StoppedByAuthenticate(code) ==
    /\ http.status = StatusUnauthorized
    /\ http.code = code
    /\ http.ran = <<"AuthenticateRequest">>

\* the request carries, after the schema, an expired token that Login gave
ExpiredToken ==
    /\ http.header.text = BearerSchema
    /\ \E t \in http.header.token : t.signed /\ t.expired

(* C25.  On every route under /v1 but login, the handler of the resource    *)
(* runs only after AuthenticateRequest validated the token of the header    *)
(* and stored its claims as the identity of the caller and AuthorizeRequest *)
(* then let the role through.  A request without Authorization header is    *)
(* answered 401 authorization_token_missing, one with an expired token 401  *)
(* expired_token, one with any other header that holds no valid token 401   *)
(* invalid_token, and in these cases no later handler of the chain runs.    *)
C25_AuthenticationFirst ==
    OnProtectedRoute =>
        /\ (ResourceRan
              => /\ http.ran = http.chain
                 /\ \E t \in BearerTokens :
                      /\ http.ctx = [ok |-> TRUE,
                                     claims |-> [UserID |-> t.UserID, Role |-> t.Role]]
                      /\ CanAccess(NewRoleControl, http.method, http.path, t.Role))
        /\ (http.header = NoHeader => StoppedByAuthenticate("authorization_token_missing"))
        /\ (ExpiredToken => StoppedByAuthenticate("expired_token"))
        /\ (http.header # NoHeader /\ ~ExpiredToken /\ BearerTokens = {}
              => StoppedByAuthenticate("invalid_token"))

\* the header is shorter than the schema
ShortHeader == http.header.token = {} /\ Len(http.header.text) < Len(BearerSchema)

(* C35.  Whatever the Authorization header holds, when it is not empty      *)
(* (shorter than the schema or not starting with it included),              *)
(* AuthenticateRequest either lets the request through with the claims of   *)
(* a valid token or answers 401 with expired_token, invalid_token or        *)
(* invalid_token_data; it fails in no other way.                            *)
C35_AuthenticateAnswers ==
    (OnProtectedRoute /\ http.header # NoHeader)
        => \/ /\ BearerTokens # {}
              /\ Len(http.ran) > 1
              /\ http.ran[1] = "AuthenticateRequest"
           \/ \E code \in {"expired_token", "invalid_token", "invalid_token_data"} :
                StoppedByAuthenticate(code)

----------------------------------------------------------------------------
(* The properties of the user service                                       *)

\* this step is a call of the user service of this name
Calls(name) == http = NoRequest /\ http'.handler = name

(* C26.  UserStorage.Save stores a user only when the password encrypts and *)
(* the role is admin or driver.  It returns invalid_password when the       *)
(* encryption fails, invalid_role for another role, storage_failure (save)  *)
(* when the repository fails, and then the table is left as it was; on      *)
(* success the table gains the row of the user, with the encrypted password, *)
(* and the id handed out, the email and the role are returned.              *)
C26_SaveUser ==
    [][Calls("UserStorage.Save") =>
         LET user == http'.user
             fault == http'.fault
             err == http'.err
             valid == user.Role \in {RoleAdmin, RoleDriver}
             refused == fault = FaultSaveUser \/ RowsOfEmail(users, user.Email) # {}
         IN  /\ (fault = FaultEncrypt => err = ErrInvalidPasswordToSave)
             /\ (fault # FaultEncrypt /\ ~valid => err = ErrInvalidRole)
             /\ (fault # FaultEncrypt /\ valid /\ refused => err = user_ErrStorageSave)
             /\ (fault # FaultEncrypt /\ valid /\ ~refused => err = Nil)
             /\ (err # Nil => users' = users /\ http'.result = ZeroSecuredUser)
             /\ (err = Nil
                   => /\ users' = Append(users, [email |-> user.Email,
                                                 password |-> Encrypt(user.Password),
                                                 role |-> user.Role])
                      /\ http'.result = [ID |-> Len(users) + 1, Email |-> user.Email,
                                         Role |-> user.Role])]_vars

\* a driver was saved and is the last row of the table
C26_Witness ==
    /\ http.handler = "UserStorage.Save"
    /\ http.err = Nil
    /\ http.result.ID = Len(users)
    /\ users[Len(users)].role = RoleDriver
    /\ users[Len(users)].password = Encrypt(http.user.Password)

(* C27.  Login returns a token only when a row holds the given email and    *)
(* its password matches the given one, and the token carries the id and the *)
(* role of that row.  It fails with not_found_user when no row holds the    *)
(* email, with storage_failure (get) when the look-up fails otherwise, and  *)
(* with invalid_password when the password does not match.                  *)
C27_Login ==
    http.handler = "UserStorage.Login" =>
        LET rows == RowsOfEmail(users, http.user.Email)
            matching == {id \in rows : Compare(users[id].password, http.user.Password)}
        IN  /\ (http.fault = FaultGetByEmail => http.err = user_ErrStorageGet)
            /\ (http.fault = FaultNone /\ rows = {} => http.err = ErrNotFoundUser)
            /\ (http.fault = FaultNone /\ rows # {} /\ matching = {}
                  => http.err = ErrInvalidPasswordToLogin)
            /\ (http.err # Nil => http.token = NoToken)
            /\ (http.err = Nil
                  => \E id \in matching :
                       http.token = [signed |-> TRUE, expired |-> FALSE,
                                     UserID |-> id, Role |-> users[id].role])

\* a driver created after the first admin logs in
C27_Witness ==
    /\ http.handler = "UserStorage.Login"
    /\ http.err = Nil
    /\ http.token.UserID = 2
    /\ http.token.Role = RoleDriver

\* the larger of two integers
Max(a, b) == IF a >= b THEN a ELSE b

\* the total count GetPaginate returns for the table
TotalCount == IF http.fault = FaultCountScan THEN 0 ELSE Len(users)

(* C28.  A search without status uses limit 20 and offset 0 unless they are *)
(* given, and reports Total equal to the total count of the repository and  *)
(* Pending equal to max(0, Total - limit - offset); a search with status    *)
(* free reports Total equal to the number of free drivers it returns and    *)
(* Pending 0.                                                               *)
C28_SearchMetadata ==
    http.handler = "UserStorage.Search" /\ http.err = Nil =>
        LET limit == OptionOr(http.opt.limit, 20)
            offset == OptionOr(http.opt.offset, 0)
        IN  IF http.opt.status = {}
            THEN /\ http.metadata.Total = TotalCount
                 /\ http.metadata.Pending = Max(0, http.metadata.Total - limit - offset)
                 /\ (http.opt.limit = {} /\ http.opt.offset = {}
                       => http.result = Secured([k \in 1..Len(users) |-> Scanned(users, k)]))
            ELSE /\ http.metadata.Total = Len(http.result)
                 /\ http.metadata.Pending = 0

(* C29.  A search with pagination, for every limit >= 1 and offset >= 0,    *)
(* returns at most limit users: those that follow the first offset rows of  *)
(* the table.                                                               *)
C29_Pagination ==
    /\ http.handler = "UserStorage.Search"
    /\ http.err = Nil
    /\ http.opt.status = {}
    /\ OptionOr(http.opt.limit, DefaultLimit) >= 1
    /\ OptionOr(http.opt.offset, DefaultOffset) >= 0
    => LET limit == OptionOr(http.opt.limit, DefaultLimit)
           offset == OptionOr(http.opt.offset, DefaultOffset)
           page == Limited(IdsOf(users), offset, limit)
       IN  /\ Len(http.result) <= limit
           /\ http.result = Secured([k \in DOMAIN page |-> Scanned(users, page[k])])

----------------------------------------------------------------------------
(* The calls of the travel service on a table of two rows, the target of an *)
(* Update and another one.                                                  *)

\* the ids of the two rows
FrameIDs == {1, 2}

\* the routes of the calls on the two rows
FrameRoutes == {BaseRoute, Moved(1)}

\* a Save call (travel.go 69-79) while the table holds less than two rows
FrameSave ==
    /\ last.op = OpNone
    /\ nextID \in FrameIDs
    /\ \E status \in Statuses, way \in FrameRoutes, user \in UserIDs,
          fault \in {FaultNone, FaultSave} :
         LET arg == TravelOf(0, status, way, user)
             r == Save(travels, nextID, arg, fault)
         IN  /\ travels' = r.db
             /\ nextID' = IF r.err = Nil THEN nextID + 1 ELSE nextID
             /\ last' = [op |-> OpSave, arg |-> arg, ctx |-> NoContext, fault |-> fault,
                         found |-> FALSE, stored |-> ZeroTravel,
                         travel |-> r.travel, err |-> r.err]
             /\ UNCHANGED <<calls, users, http, point>>

\* an Update call (travel.go 82-115) for one of the two ids
FrameUpdate ==
    /\ last.op = OpNone
    /\ \E id \in FrameIDs, status \in Statuses, way \in FrameRoutes, user \in UserIDs,
          ctx \in Contexts, fault \in {FaultNone, FaultGet, FaultEdit} :
         LET arg == TravelOf(id, status, way, user)
         IN  \E r \in {Update(travels, arg, ctx, fault)} :
             /\ travels' = r.db
             /\ last' = [op |-> OpUpdate, arg |-> arg, ctx |-> ctx, fault |-> fault,
                         found |-> id \in DOMAIN travels,
                         stored |-> StoredTravel(travels, id),
                         travel |-> r.travel, err |-> r.err]
             /\ UNCHANGED <<nextID, calls, users, http, point>>

NextFrame == FrameSave \/ FrameUpdate \/ Respond

SpecFrame == Init /\ [][NextFrame]_vars

----------------------------------------------------------------------------
(* The properties of the writes of an Update                                *)

\* the step is an Update call
UpdateStep == last.op = OpNone /\ last'.op = OpUpdate

\* the id the Update call of the step is for
Target == last'.arg.ID

\* C32: an Update that returns an error other than storage-update leaves the
\* whole table as it was; an accepted Update writes the row of its id, which
\* then holds the travel it returns, and no other row; no Update adds a row
C32_UpdateWritesTarget ==
    [][UpdateStep =>
         /\ DOMAIN travels' = DOMAIN travels
         /\ \A id \in DOMAIN travels : id # Target => travels'[id] = travels[id]
         /\ (last'.err \notin {Nil, ErrStorageUpdate} => travels' = travels)
         /\ (last'.err = Nil =>
               /\ Target \in DOMAIN travels
               /\ travels'[Target] # travels[Target]
               /\ StoredTravel(travels', Target) = last'.travel)]_vars

\* an accepted Update wrote one of two rows that held the same
C32_Witness ==
    /\ last.op = OpUpdate /\ last.err = Nil
    /\ DOMAIN travels = FrameIDs
    /\ \E other \in FrameIDs :
         /\ other # last.arg.ID
         /\ travels[other] # travels[last.arg.ID]
         /\ StoredTravel(travels, other) = [last.stored EXCEPT !.ID = other]

----------------------------------------------------------------------------
(* Calls handled at the same time: a Save is one INSERT and may fall        *)
(* anywhere between the read and the write of an Update.                    *)

NextConcurrent ==
    \/ CallSave
    \/ (NoRace /\ CallUpdate)
    \/ Respond
    \/ \E p \in Racers : ReadTravel(p)
    \/ \E p \in Racers : WriteTravel(p)

SpecConcurrent == Init /\ [][NextConcurrent]_vars

\* C33: whatever the order of the Saves, the reads and the writes of the
\* calls handled at the same time, every travel of the table reads back with
\* a status of the flow and, past pending, with an assigned user
C33_ConcurrentTravelsValid ==
    \A id \in DOMAIN travels :
        LET stored == StoredTravel(travels, id)
        IN  /\ findStatusInFlow(stored.Status) >= 0
            /\ (~isPending(stored) => stored.UserID # 0)

\* two accepted Updates that read the same pending travel and assigned it to
\* different users; the table holds what the later one wrote
C33_Witness ==
    \E p \in Accepted, q \in Accepted :
        /\ calls[p].id = calls[q].id
        /\ calls[p].got = calls[q].got
        /\ calls[p].got.travel.Status = "pending"
        /\ calls[p].res.travel.Status = "in_process"
        /\ calls[q].res.travel.Status = "in_process"
        /\ calls[p].res.travel.UserID # calls[q].res.travel.UserID
        /\ StoredTravel(travels, calls[q].id) = calls[q].res.travel

\* a Save fell between the read and the write of an Update: the Update read
\* no travel and the table holds one when it returns
SaveBetweenReadAndWrite ==
    \E p \in Racers :
        /\ calls[p].phase = "done"
        /\ calls[p].got.err = ErrNotFoundTravel
        /\ calls[p].id \in DOMAIN travels

\* the racing requests of a caller who is no admin whose Update was accepted
AcceptedDrivers == {p \in Accepted : calls[p].ctx.claims.Role # RoleAdmin}

(* C34, as stated.  When the accepted Update of a caller who is no admin    *)
(* writes a travel, the row it replaces holds that caller as assigned user. *)
C34_DriverOverwritesOwnRow ==
    [][\A p \in Racers :
         (/\ calls[p].phase = "read"
          /\ calls'[p].phase = "done"
          /\ calls'[p].res.err = Nil
          /\ calls'[p].ctx.claims.Role # RoleAdmin)
            => StoredTravel(travels, calls[p].id).UserID = calls'[p].ctx.claims.UserID]_vars

(* C34.  The accepted Update of a caller who is no admin was validated on    *)
(* the travel it read: the assigned user of that travel is the caller, and   *)
(* the call stores the caller as assigned user.  Nothing ties the row its    *)
(* write replaces to the travel it read.                                     *)
C34_DriverOwnsTravelRead ==
    \A p \in AcceptedDrivers :
        /\ calls[p].got.travel.UserID = calls[p].ctx.claims.UserID
        /\ calls[p].res.travel.UserID = calls[p].ctx.claims.UserID

\* a driver and an admin read the driver's travel; the admin assigned it to
\* another user, then the driver's write put the driver back
C34_Witness ==
    \E p \in AcceptedDrivers, q \in Accepted :
        /\ calls[q].ctx.claims.Role = RoleAdmin
        /\ calls[p].id = calls[q].id
        /\ calls[p].got = calls[q].got
        /\ calls[q].res.travel.UserID # calls[p].ctx.claims.UserID
        /\ StoredTravel(travels, calls[p].id) = calls[p].res.travel

----------------------------------------------------------------------------
(* The handlers of the travels over a database that may fail the statement  *)
(* of a call.  The request handled keeps the error the travel service       *)
(* returned and the description of the body, as the mocks of the tests of    *)
(* the handlers tell what they return.                                       *)

\* the answer a with the error err of the travel service behind it
Observed(handler, req, ctx, fault, a, err) ==
    [handler |-> handler, req |-> req, ctx |-> ctx, fault |-> fault,
     status |-> a.status, code |-> a.code, called |-> a.called,
     err |-> IF a.called THEN err ELSE Nil,
     description |-> IF a.called /\ err # Nil THEN apiErrorOf(err).Description ELSE ""]

\* GET of a travel
FaultyGetTravel ==
    /\ http = NoRequest
    /\ \E shape \in {BadID, WellFormed}, id \in TravelIDs, fault \in {FaultNone, FaultGet} :
         LET req == Request(shape, id, ZeroTravel)
         IN  \E a \in {TravelHandler_Get(travels, req, fault)} :
               http' = Observed("TravelHandler.Get", req, NoContext, fault, a,
                                Get(travels, id, fault).err)
    /\ UNCHANGED <<travels, nextID, last, calls, users, point>>

\* POST of a travel
FaultyCreateTravel ==
    /\ http = NoRequest
    /\ nextID <= MaxTravels
    /\ \E shape \in {BadBody, WellFormed}, user \in UserIDs, fault \in {FaultNone, FaultSave} :
         LET req == Request(shape, 0, TravelOf(0, StatusPending, BaseRoute, user))
         IN  \E a \in {TravelHandler_Create(travels, nextID, req, fault)} :
             /\ travels' = a.db
             /\ nextID' = IF a.status = StatusCreated THEN nextID + 1 ELSE nextID
             /\ http' = Observed("TravelHandler.Create", req, NoContext, fault, a,
                                 Save(travels, nextID, req.travel, fault).err)
    /\ UNCHANGED <<last, calls, users, point>>

\* PUT of a travel
FaultyEditTravel ==
    /\ http = NoRequest
    /\ \E shape \in Shapes, id \in TravelIDs, status \in Statuses, way \in FrameRoutes,
          user \in UserIDs, ctx \in Contexts, fault \in {FaultNone, FaultGet, FaultEdit} :
         LET req == Request(shape, id, TravelOf(0, status, way, user))
         IN  \E a \in {TravelHandler_Edit(travels, users, req, ctx, fault)} :
             /\ travels' = a.db
             /\ http' = Observed("TravelHandler.Edit", req, ctx, fault, a,
                                 Update(travels, [req.travel EXCEPT !.ID = id], ctx, fault).err)
    /\ UNCHANGED <<nextID, last, calls, users, point>>

NextTravelErrors ==
    FaultyGetTravel \/ FaultyCreateTravel \/ FaultyEditTravel \/ HandleCreateUser \/ Reply

SpecTravelErrors == Init /\ [][NextTravelErrors]_vars

\* the travel service returned an error to a handler of the travels
ServiceFailed ==
    /\ http.handler \in {"TravelHandler.Get", "TravelHandler.Create", "TravelHandler.Edit"}
    /\ http.called
    /\ http.err # Nil

\* README 298-307: the status and the code documented for the errors
Documented ==
    {<<ErrStorageSave, StatusInternalServerError, "storage_failure">>,
     <<ErrStorageUpdate, StatusInternalServerError, "storage_failure">>,
     <<ErrStorageGet, StatusInternalServerError, "storage_failure">>,
     <<ErrNotFoundTravel, StatusNotFound, "not_found_travel">>,
     <<ErrInvalidStatusToEditLocation, StatusBadRequest, "invalid_location_edit_status">>,
     <<ErrInvalidStatusToEdit, StatusBadRequest, "invalid_status">>,
     <<ErrInvalidUser, StatusBadRequest, "invalid_user">>,
     <<ErrInvalidUserClaims, StatusUnauthorized, "invalid_user_access">>,
     <<ErrInvalidUserAccess, StatusUnauthorized, "invalid_user_access">>}

\* C36: every error the travel service returns to a handler is answered with
\* the status and the code documented for it and with its own detail, never
\* with the generic 500 "error"
C36_TravelErrorsMapped ==
    ServiceFailed =>
        /\ <<http.err, http.status, http.code>> \in Documented
        /\ http.description = http.err.Detail
        /\ http.code # "error"

\* an update whose UPDATE statement failed is answered 500 storage_failure
\* with the detail of the update
C36_Witness ==
    /\ ServiceFailed
    /\ http.handler = "TravelHandler.Edit"
    /\ http.fault = FaultEdit
    /\ http.err = ErrStorageUpdate
    /\ http.status = StatusInternalServerError
    /\ http.code = "storage_failure"
    /\ http.description = ErrStorageUpdate.Detail

\* the errors of the travel service that a handler answered
ErrorAnswered(err) == ServiceFailed /\ http.err = err

----------------------------------------------------------------------------
(* Updates of a travel that the service did not write: the column status    *)
(* is a varchar(15) (migration.sql 7) and the repositories of the tests     *)
(* hold travels without status (travel_test.go 192-203), so the table may   *)
(* hold a row whose status is not of the flow.                              *)

\* the table holds one such row, with or without assigned user
InitForeign ==
    /\ travels \in {<<[status |-> status, from |-> StringOf[BaseRoute.From],
                       to |-> StringOf[BaseRoute.To], user_id |-> user]>> :
                      status \in {"", "cancelled"},
                      user \in {NullInt64} \cup {ValidInt64(u) : u \in 1..MaxUser}}
    /\ nextID = 2
    /\ last = Idle
    /\ calls = [p \in Racers |-> NotStarted]
    /\ users = <<FirstAdmin>>
    /\ http = NoRequest
    /\ point = NoPoint

NextForeign == CallUpdate \/ Respond

SpecForeign == InitForeign /\ [][NextForeign]_vars

\* the validation ran on a stored travel whose status is not of the flow, for
\* a caller who passes the two checks of the caller
OutsideFlow ==
    /\ ReachedValidation
    /\ Index(Cur.Status) = -1
    /\ PassesAuthorization

\* C38: on a stored travel whose status is not of the flow, the Update of an
\* authorized caller that keeps the locations and carries a user id other
\* than 0 is accepted exactly when it proposes pending, and one that changes
\* a location is rejected with invalid-location-edit
C38_OutsideFlowOnlyToPending ==
    OutsideFlow =>
        /\ (~RouteDiffers /\ Prop.UserID # 0
              => (last.err = Nil <=> Prop.Status = StatusPending))
        /\ (RouteDiffers => last.err = ErrInvalidStatusToEditLocation)

\* a travel without status was moved to pending
C38_Witness ==
    /\ OutsideFlow
    /\ Cur.Status = ""
    /\ ~RouteDiffers
    /\ Prop.UserID # 0
    /\ Prop.Status = StatusPending
    /\ last.err = Nil
    /\ Now.Status = StatusPending

\* a location change on a travel without status was rejected
OutsideFlowLocationEdit ==
    OutsideFlow /\ RouteDiffers /\ last.err = ErrInvalidStatusToEditLocation

----------------------------------------------------------------------------
(* The conversion of a Point alone: Test_Point (repository.go 213-226)      *)
(* writes a Point with String and reads the text with FromString.          *)

\* the coordinates converted: every number of tenths up to MaxTenths, and
\* the tenths nearest to the coordinates of Test_Point (-100.1 and 2.2),
\* the ends of the ranges of a latitude and of a longitude
TestCoordinates == (-MaxTenths..MaxTenths) \cup {-1001, 22, 900, -900, 1800, -1800}

\* Test_Point draws its Point
InitPoint ==
    /\ travels = <<>>
    /\ nextID = 1
    /\ last = Idle
    /\ calls = [p \in Racers |-> NotStarted]
    /\ users = <<FirstAdmin>>
    /\ http = NoRequest
    /\ point \in {[phase |-> "drawn", p |-> [Lat |-> lat, Lng |-> lng]] :
                    lat \in TestCoordinates, lng \in TestCoordinates}

\* p.String() (repository.go 220)
EncodePoint ==
    /\ point.phase = "drawn"
    /\ point' = [phase |-> "encoded", p |-> point.p, text |-> PointString(point.p)]
    /\ UNCHANGED <<travels, nextID, last, calls, users, http>>

\* newPoint.FromString(p.String()) (repository.go 222-223)
DecodePoint ==
    /\ point.phase = "encoded"
    /\ \E r \in {PointFromString(point.text)} :
         point' = [phase |-> "decoded", p |-> point.p, text |-> point.text,
                   newPoint |-> r.p, err |-> r.err, panic |-> r.panic]
    /\ UNCHANGED <<travels, nextID, last, calls, users, http>>

NextPoint == EncodePoint \/ DecodePoint

SpecPoint == InitPoint /\ [][NextPoint]_vars

----------------------------------------------------------------------------
(* The properties of the conversion of a Point                              *)

\* C31: a Point written with String and read back with FromString has the
\* latitude and the longitude it had, with no error, whatever their signs and
\* fractions
C31_PointRoundTrip ==
    point.phase = "decoded" =>
        /\ ~point.err /\ ~point.panic
        /\ point.newPoint.Lat = point.p.Lat
        /\ point.newPoint.Lng = point.p.Lng

\* a Point of a negative and fractional latitude and a fractional longitude
\* was written and read back
C31_Witness ==
    /\ point.phase = "decoded"
    /\ point.p = [Lat |-> -1001, Lng |-> 22]
    /\ point.text = <<"-", "1", "0", "0", ".", "1", ",", " ", "2", ".", "2">>

============================================================================

